---------------------------- MODULE Spec2Model ----------------------------
(***************************************************************************)
(* Construct-name normalization and cross-source matching of the           *)
(* lipidation-site scripts: HPLC/make_hplc_pptx.py, HPLC/plot_hplc.py and  *)
(* MALDI/plot_maldi_constructs.py.                                         *)
(*                                                                         *)
(* A Python str is a sequence of characters; a character is a one-letter   *)
(* string, or a token naming a code point (U+0060 and those outside        *)
(* printable ASCII).                                                       *)
(***************************************************************************)
EXTENDS Integers, Sequences, FiniteSets, TLC

VARIABLES
    \* ---- the two normalizers applied to a raw name and to an edited copy
    raw,            \* the raw name
    alt,            \* a second raw name, one edit away from raw
    edit,           \* what the edit was
    npc,            \* "input" | "edited" | "done"
    nres,           \* the keys the normalizers returned
    \* ---- plot_hplc: a column, its display name and its PNG file
    cell,           \* header cell of the page CSV
    collides,       \* the column is a page-3 column named like a page-1/2 column
    col,            \* column name in the merged frame
    shown,          \* _clean_construct_name(col)
    png,            \* name of the PNG written for the column
    fkeys,          \* keys make_hplc_pptx derives for the PNG and for the header
    fpc,            \* "csv" | "read" | "saved" | "matched"
    \* ---- make_hplc_pptx.main
    files,          \* names of the files of --imgdir
    pages,          \* pages[n]: the --page<n> argument and the header cells of its file
    pc,             \* "start" | "pages" | "leftover" | "done"
    page,           \* page pass in progress (1..4)
    idx,            \* raw names of that page already handled
    imgs,           \* imgs
    allowed,        \* allowed
    img_map,        \* img_map
    seen_keys,      \* seen_keys
    ordered_imgs,   \* ordered_imgs
    emitted_by,     \* history: for each entry of ordered_imgs, who appended it
    \* ---- the functions that lay images out on slides
    fn,             \* the layout function that runs
    grid,           \* its arguments other than the items
    items,          \* the items: the native size of every image, in EMU
    slides,         \* prs.slides: the pictures of every slide added so far
    cur,            \* the loop variables of the function
    lpc,            \* "call" | "loop" | "done" | "error"
    \* ---- sequence_utils.get_sequence_window
    sequence,       \* the sequence, one residue per element
    position,       \* the centre position (0-indexed)
    window_size,    \* the number of residues on each side
    window,         \* the value returned
    wpc,            \* "call" | "done"
    \* ---- plot_hplc: the pages, their merge and the plot of every merged column
    page_cols,      \* page_cols[n]: whether page n is given, and its columns other than Time
    frames,         \* the list pages: per data frame its page and its columns
    merged,         \* the merged frame: per column its name and the series averaged into it
    plots,          \* per plotted column its display name and its PNG
    hpc,            \* "start" | "read" | "merged" | "plotted"
    \* ---- si_table3.build_si_table
    obs_main,       \* compute_observed_main(), in the order of the dict
    obs_book1,      \* compute_observed_book1(), in the order of the dict
    theoretical,    \* the rows of the theoretical table with a name and a value cell
    obs_main_norm,  \* obs_main_norm
    disp_main_norm, \* disp_main_norm
    obs_book1_norm, \* obs_book1_norm
    disp_book1_norm,\* disp_book1_norm
    theor_by_norm,  \* theor_by_norm
    disp_theor_norm,\* disp_theor_norm
    rows,           \* rows
    tpc             \* "start" | "main" | "book1" | "theoretical" | "rows"

normVars == <<raw, alt, edit, npc, nres>>
fileVars == <<cell, collides, col, shown, png, fkeys, fpc>>
mainVars == <<files, pages, pc, page, idx, imgs, allowed, img_map, seen_keys,
              ordered_imgs, emitted_by>>
layoutVars == <<fn, grid, items, slides, cur, lpc>>
windowVars == <<sequence, position, window_size, window, wpc>>
mergeVars == <<page_cols, frames, merged, plots, hpc>>
tableVars == <<obs_main, obs_book1, theoretical, obs_main_norm, disp_main_norm,
               obs_book1_norm, disp_book1_norm, theor_by_norm, disp_theor_norm, rows, tpc>>
vars == <<normVars, fileVars, mainVars, layoutVars, windowVars, mergeVars, tableVars>>

-----------------------------------------------------------------------------
(* Characters *)

\* Printable ASCII in code point order, U+0020 first.
Ascii ==
    <<" ", "!", "\"", "#", "$", "%", "&", "'", "(", ")", "*", "+", ",", "-", ".", "/",
      "0", "1", "2", "3", "4", "5", "6", "7", "8", "9", ":", ";", "<", "=", ">", "?",
      "@", "A", "B", "C", "D", "E", "F", "G", "H", "I", "J", "K", "L", "M", "N", "O",
      "P", "Q", "R", "S", "T", "U", "V", "W", "X", "Y", "Z", "[", "\\", "]", "^", "_",
      "BACKTICK", "a", "b", "c", "d", "e", "f", "g", "h", "i", "j", "k", "l", "m", "n", "o",
      "p", "q", "r", "s", "t", "u", "v", "w", "x", "y", "z", "{", "|", "}", "~">>

\* Characters outside printable ASCII, by code point.
Other ==
    <<[ch |-> "\t", cp |-> 9], [ch |-> "\n", cp |-> 10], [ch |-> "NBSP", cp |-> 160],
      [ch |-> "E_ACUTE", cp |-> 233], [ch |-> "ZWSP", cp |-> 8203],
      [ch |-> "ZWNJ", cp |-> 8204], [ch |-> "ZWJ", cp |-> 8205],
      [ch |-> "BOM", cp |-> 65279]>>

\* ord(c), for every character of the two lists
CodePoints ==
    [c \in {Ascii[i] : i \in 1..Len(Ascii)} \cup {Other[i].ch : i \in 1..Len(Other)} |->
        IF \E i \in 1..Len(Ascii) : Ascii[i] = c
        THEN 31 + (CHOOSE i \in 1..Len(Ascii) : Ascii[i] = c)
        ELSE (CHOOSE o \in {Other[i] : i \in 1..Len(Other)} : o.ch = c).cp]

CodePoint(c) == CodePoints[c]

AsciiRange(lo, hi) == {Ascii[i - 31] : i \in lo..hi}
Digits == AsciiRange(48, 57)
Upper  == AsciiRange(65, 90)
Lower  == AsciiRange(97, 122)

\* str.isspace(), and \s of a str pattern
WhiteSpace == {" ", "\t", "\n", "NBSP"}
\* \w of a str pattern: alphanumerics of any script, and the underscore
WordChars == Digits \cup Upper \cup Lower \cup {"_", "E_ACUTE"}
\* the class of re.sub(r"[\u200b\u200c\u200d\ufeff]", "", s2)
ZeroWidth == {"ZWSP", "ZWNJ", "ZWJ", "BOM"}

\* str.lower() of one character
lower_char(c) == IF c \in Upper THEN Ascii[CodePoint(c) + 32 - 31] ELSE c
\* str.upper() of one character
upper_char(c) == IF c \in Lower THEN Ascii[CodePoint(c) - 32 - 31] ELSE c

-----------------------------------------------------------------------------
(* str methods and re.sub *)

SetMin(S) == CHOOSE m \in S : (m - 1) \notin S /\ \A x \in S : m <= x
SetMax(S) == CHOOSE m \in S : (m + 1) \notin S /\ \A x \in S : m >= x

\* s.lower()
str_lower(s) == [i \in 1..Len(s) |-> lower_char(s[i])]

\* s.strip(chars)
strip_chars(s, chars) ==
    LET keep == {i \in 1..Len(s) : s[i] \notin chars}
    IN  IF keep = {} THEN <<>> ELSE SubSeq(s, SetMin(keep), SetMax(keep))

\* s.strip()
strip(s) == strip_chars(s, WhiteSpace)

\* s.replace(c, d) for single characters c and d
replace_char(s, c, d) == [i \in 1..Len(s) |-> IF s[i] = c THEN d ELSE s[i]]

\* s.replace(c, "") for a character c, and re.sub("[...]", "", s) for a class
remove_chars(s, chars) == SelectSeq(s, LAMBDA c : c \notin chars)

\* re.sub(r"[class]+", d, s): every maximal run of characters of the class
\* becomes one d
sub_runs(s, class, d) ==
    LET starts == SelectSeq([i \in 1..Len(s) |-> i],
                            LAMBDA i : s[i] \notin class \/ i = 1 \/ s[i - 1] \notin class)
    IN  [j \in 1..Len(starts) |-> IF s[starts[j]] \in class THEN d ELSE s[starts[j]]]

\* s.startswith(t), s.endswith(t)
startswith(s, t) == Len(t) <= Len(s) /\ SubSeq(s, 1, Len(t)) = t
endswith(s, t) == Len(t) <= Len(s) /\ SubSeq(s, Len(s) - Len(t) + 1, Len(s)) = t

\* t in s
contains(s, t) == \E i \in 0..(Len(s) - Len(t)) : SubSeq(s, i + 1, i + Len(t)) = t

\* s.replace(t, ""): the occurrences of t, leftmost first and not overlapping,
\* are removed
RECURSIVE remove_all(_, _)
remove_all(s, t) ==
    IF Len(s) = 0 \/ Len(t) = 0 THEN s
    ELSE IF startswith(s, t) THEN remove_all(SubSeq(s, Len(t) + 1, Len(s)), t)
    ELSE <<s[1]>> \o remove_all(SubSeq(s, 2, Len(s)), t)

-----------------------------------------------------------------------------
(* MALDI/plot_maldi_constructs.py *)

\* Only the first underscore of a group is replaced.
paren_fix_first_only(s) ==
    LET closing(i) == {k \in (i + 1)..Len(s) : s[k] = ")"}
        RECURSIVE scan(_)
        scan(i) ==
            IF i > Len(s) THEN <<>>
            ELSE IF s[i] = "(" /\ closing(i) # {}
            THEN LET k == SetMin(closing(i))
                     us == {j \in (i + 1)..(k - 1) : s[j] = "_"}
                 IN  <<"(">> \o [j \in 1..(k - i - 1) |->
                                    IF us # {} /\ i + j = SetMin(us) THEN "/" ELSE s[i + j]]
                            \o <<")">> \o scan(k + 1)
            ELSE <<s[i]>> \o scan(i + 1)
    IN  scan(1)

\* re.sub(r"\(([^)]*)\)", _paren_fix, s2): each match runs from a "(" to the
\* first ")" after it; matches are found left to right and do not overlap.
paren_fix(s) ==
    LET closing(i) == {k \in (i + 1)..Len(s) : s[k] = ")"}
        RECURSIVE scan(_)
        scan(i) ==
            IF i > Len(s) THEN <<>>
            ELSE IF s[i] = "(" /\ closing(i) # {}
            THEN LET k == SetMin(closing(i))
                 IN  <<"(">> \o replace_char(SubSeq(s, i + 1, k - 1), "_", "/")
                            \o <<")">> \o scan(k + 1)
            ELSE <<s[i]>> \o scan(i + 1)
    IN  scan(1)

\* The format characters removed only after the strip and the space removal.
normalize_name_for_match_late_format(s) ==
    str_lower(paren_fix(remove_chars(remove_chars(strip(s), {" "}), ZeroWidth)))

\* No lower().
normalize_name_for_match_no_lower(s) ==
    paren_fix(remove_chars(strip(remove_chars(s, ZeroWidth)), {" "}))

normalize_name_for_match(s) ==
    LET s2 == remove_chars(s, ZeroWidth)
        s3 == remove_chars(strip(s2), {" "})
    IN  str_lower(paren_fix(s3))

-----------------------------------------------------------------------------
(* HPLC/make_hplc_pptx.py *)

\* re.sub(r"[^\w\-]+", "_", s): the characters that are neither \w nor "-"
NonWordNonHyphen(s) == {s[i] : i \in 1..Len(s)} \ (WordChars \cup {"-"})

norm_name(s) ==
    LET s1 == strip(s)
        s2 == replace_char(s1, " ", "_")
        s3 == sub_runs(s2, NonWordNonHyphen(s2), "_")
        s4 == sub_runs(s3, {"_"}, "_")
    IN  strip_chars(s4, {"_"})

\* p.suffix and p.stem of a path whose final component is name
last_dot(name) == LET dots == {i \in 1..Len(name) : name[i] = "."}
                  IN  IF dots = {} THEN 0 ELSE SetMax(dots)
has_suffix(name) == 1 < last_dot(name) /\ last_dot(name) < Len(name)
path_suffix(name) ==
    IF has_suffix(name) THEN SubSeq(name, last_dot(name), Len(name)) ELSE <<>>
path_stem(name) ==
    IF has_suffix(name) THEN SubSeq(name, 1, last_dot(name) - 1) ELSE name

CHROM == <<"_", "c", "h", "r", "o", "m">>
PNG == <<".", "p", "n", "g">>
P3DISTINCT == <<"_", "p", "3", "d", "i", "s", "t", "i", "n", "c", "t">>

\* main.base_name: re.sub(r"_chrom$", "", p.stem); "$" also matches before a
\* newline that ends the string
base_name(name) ==
    LET stem == path_stem(name)
    IN  IF endswith(stem, CHROM) THEN SubSeq(stem, 1, Len(stem) - Len(CHROM))
        ELSE IF endswith(stem, CHROM \o <<"\n">>)
        THEN SubSeq(stem, 1, Len(stem) - Len(CHROM) - 1) \o <<"\n">>
        ELSE stem

-----------------------------------------------------------------------------
(* HPLC/plot_hplc.py *)

\* Length of the match of (?i)^\s*HPLC\s*chromatogram[s]?\s*[-:]*\s* in s
\* (0: no match)
caption_prefix_len(s) ==
    LET skip(i, class) ==
            LET stop == {j \in i..Len(s) : s[j] \notin class}
            IN  IF stop = {} THEN Len(s) + 1 ELSE SetMin(stop)
        at(i, word) == /\ i + Len(word) - 1 <= Len(s)
                       /\ str_lower(SubSeq(s, i, i + Len(word) - 1)) = word
        i1 == skip(1, WhiteSpace)
        i2 == skip(i1 + 4, WhiteSpace)
        i3 == i2 + 12
        i4 == IF i3 <= Len(s) /\ lower_char(s[i3]) = "s" THEN i3 + 1 ELSE i3
        i5 == skip(skip(skip(i4, WhiteSpace), {"-", ":"}), WhiteSpace)
    IN  IF at(i1, <<"h", "p", "l", "c">>)
           /\ at(i2, <<"c", "h", "r", "o", "m", "a", "t", "o", "g", "r", "a", "m">>)
        THEN i5 - 1 ELSE 0

\* The suffix is not removed.
clean_construct_name_keeps_suffix(name) ==
    LET s2 == SubSeq(name, caption_prefix_len(name) + 1, Len(name))
    IN  strip(strip_chars(strip(s2), {"-", ":"}))

\* plot_hplc._clean_construct_name
clean_construct_name(name) ==
    LET s1 == remove_all(name, P3DISTINCT)
        s2 == SubSeq(s1, caption_prefix_len(s1) + 1, Len(s1))
    IN  strip(strip_chars(strip(s2), {"-", ":"}))

\* re.sub(r"[^A-Za-z0-9._-]", "_", filename_base)
safe_name(s) ==
    [i \in 1..Len(s) |->
        IF s[i] \in Upper \cup Lower \cup Digits \cup {".", "_", "-"} THEN s[i] ELSE "_"]

\* The name of the PNG plot_hplc saves for column c of the merged frame
png_name(c) ==
    LET raw_name_clean == clean_construct_name(c)
        filename_base == IF endswith(c, P3DISTINCT)
                         THEN raw_name_clean \o P3DISTINCT ELSE raw_name_clean
    IN  safe_name(filename_base) \o CHROM \o PNG

-----------------------------------------------------------------------------
(* Values of the variables of an operation that is not running *)

NoKeys == [match_raw |-> <<>>, match_alt |-> <<>>, match_twice |-> <<>>,
           hplc_raw |-> <<>>, hplc_alt |-> <<>>, hplc_twice |-> <<>>]
NoFileKeys == [file |-> <<>>, header |-> <<>>, distinct |-> <<>>]

NormIdle == raw = <<>> /\ alt = <<>> /\ edit = "none" /\ npc = "off" /\ nres = NoKeys
FileIdle == /\ cell = <<>> /\ collides = FALSE /\ col = <<>> /\ shown = <<>>
            /\ png = <<>> /\ fkeys = NoFileKeys /\ fpc = "off"
MainIdle == /\ files = {} /\ pages = <<>> /\ pc = "off" /\ page = 0 /\ idx = 0
            /\ imgs = <<>> /\ allowed = {} /\ img_map = <<>> /\ seen_keys = {}
            /\ ordered_imgs = <<>> /\ emitted_by = <<>>
LayoutIdle == /\ fn = "none" /\ grid = <<>> /\ items = <<>> /\ slides = <<>>
              /\ cur = <<>> /\ lpc = "off"
WindowIdle == sequence = <<>> /\ position = 0 /\ window_size = 0 /\ window = <<>> /\ wpc = "off"
MergeIdle == /\ page_cols = <<>> /\ frames = <<>> /\ merged = {} /\ plots = {}
             /\ hpc = "off"
TableIdle == /\ obs_main = <<>> /\ obs_book1 = <<>> /\ theoretical = <<>>
             /\ obs_main_norm = <<>> /\ disp_main_norm = <<>>
             /\ obs_book1_norm = <<>> /\ disp_book1_norm = <<>>
             /\ theor_by_norm = <<>> /\ disp_theor_norm = <<>>
             /\ rows = <<>> /\ tpc = "off"

-----------------------------------------------------------------------------
(* The normalizers on raw names, and on pairs of raw names one edit apart *)

\* Longest raw name enumerated in full.
MaxLen == 3

NormAlphabet == {"a", "A", " ", "\t", "_", "/", "(", ")", "-", "ZWSP"}

\* Longer raw names: the constructs of MALDI/plot_maldi_book1.py, and one with
\* nested parentheses.
RawExamples ==
    { <<"(", "V", "_", "A", "_", "K", ")", "8", "0">>,
      <<"(", "(", "a", ")", "_", "b", ")">>,
      <<"(", "V", "/", "A", "/", "K", ")", "8", "0">>,
      <<"m", "-", "(", "V", "/", "A", "/", "K", ")", "8", "0">>,
      <<"m", "-", "V", "8", "0">> }

RawNames == UNION {[1..k -> NormAlphabet] : k \in 0..MaxLen} \cup RawExamples

\* The text s[j+1..k-1] has balanced parentheses.
Balanced(s, j, k) ==
    LET D[i \in j..(k - 1)] ==
            IF i = j THEN 0
            ELSE D[i - 1] + (IF s[i] = "(" THEN 1 ELSE IF s[i] = ")" THEN -1 ELSE 0)
    IN  (\A i \in j..(k - 1) : D[i] >= 0) /\ D[k - 1] = 0

\* Position i lies inside a pair of matching parentheses.
Enclosed(s, i) ==
    \E j \in 1..(i - 1), k \in (i + 1)..Len(s) :
        s[j] = "(" /\ s[k] = ")" /\ Balanced(s, j, k)

\* Position i lies between a "(" and the first ")" that follows that "(".
EnclosedSimply(s, i) ==
    /\ \E j \in 1..(i - 1) : s[j] = "(" /\ \A m \in j..i : s[m] # ")"
    /\ \E k \in (i + 1)..Len(s) : s[k] = ")"

Separators(s) == {i \in 1..Len(s) : s[i] \in {"_", "/"} /\ Enclosed(s, i)}

NormInit ==
    /\ raw \in RawNames
    /\ alt = raw /\ edit = "none" /\ npc = "input" /\ nres = NoKeys
    /\ FileIdle /\ MainIdle /\ LayoutIdle /\ WindowIdle /\ MergeIdle /\ TableIdle

\* alt is raw with one whitespace character more.
InsertWhitespace ==
    /\ npc = "input"
    /\ \E i \in 0..Len(raw), c \in {" ", "\t"} :
        LET before == SubSeq(raw, 1, i)
            after  == SubSeq(raw, i + 1, Len(raw))
            blank(t) == \A m \in 1..Len(t) : t[m] \in WhiteSpace
        IN  /\ alt' = before \o <<c>> \o after
            /\ edit' = IF blank(before) \/ blank(after) THEN "edge_whitespace"
                       ELSE IF c = " " THEN "inner_space"
                       ELSE "inner_whitespace"
    /\ npc' = "edited"
    /\ UNCHANGED <<raw, nres, fileVars, mainVars, layoutVars, windowVars, mergeVars, tableVars>>

\* alt is raw with "_" and "/" exchanged at one position, or at all positions,
\* inside parentheses.
SwapSeparators ==
    /\ npc = "input"
    /\ \E ps \in ({{i} : i \in Separators(raw)} \cup {Separators(raw)}) \ {{}} :
        /\ alt' = [i \in 1..Len(raw) |->
                      IF i \notin ps THEN raw[i]
                      ELSE IF raw[i] = "_" THEN "/" ELSE "_"]
        /\ edit' = IF \A i \in ps : EnclosedSimply(raw, i)
                   THEN "separator_in_group" ELSE "separator_in_outer_group"
    /\ npc' = "edited"
    /\ UNCHANGED <<raw, nres, fileVars, mainVars, layoutVars, windowVars, mergeVars, tableVars>>

\* alt is raw with the case of one letter changed.
FlipCase ==
    /\ npc = "input"
    /\ \E i \in 1..Len(raw) :
        /\ raw[i] \in Upper \cup Lower
        /\ alt' = [raw EXCEPT ![i] = IF raw[i] \in Upper THEN lower_char(raw[i])
                                                         ELSE upper_char(raw[i])]
    /\ edit' = "letter_case"
    /\ npc' = "edited"
    /\ UNCHANGED <<raw, nres, fileVars, mainVars, layoutVars, windowVars, mergeVars, tableVars>>

\* alt is raw with one space written as an underscore.
SpaceToUnderscore ==
    /\ npc = "input"
    /\ \E i \in 1..Len(raw) : raw[i] = " " /\ alt' = [raw EXCEPT ![i] = "_"]
    /\ edit' = "space_as_underscore"
    /\ npc' = "edited"
    /\ UNCHANGED <<raw, nres, fileVars, mainVars, layoutVars, windowVars, mergeVars, tableVars>>

\* Both normalizers on raw and on alt, and once more on their own result.
Normalize ==
    /\ npc \in {"input", "edited"}
    /\ nres' = [match_raw   |-> normalize_name_for_match(raw),
                match_alt   |-> normalize_name_for_match(alt),
                match_twice |-> normalize_name_for_match(normalize_name_for_match(raw)),
                hplc_raw    |-> norm_name(raw),
                hplc_alt    |-> norm_name(alt),
                hplc_twice  |-> norm_name(norm_name(raw))]
    /\ npc' = "done"
    /\ UNCHANGED <<raw, alt, edit, fileVars, mainVars, layoutVars, windowVars, mergeVars, tableVars>>

NormNext ==
    \/ InsertWhitespace
    \/ SwapSeparators
    \/ FlipCase
    \/ SpaceToUnderscore
    \/ Normalize

SpecNorm == NormInit /\ [][NormNext]_vars

-----------------------------------------------------------------------------
(* C4 *)

\* C4: normalization is idempotent: applying _normalize_name_for_match, or
\* _norm_name, to its own result returns that result, for every raw name.
C4_Idempotent ==
    npc = "done" =>
        /\ nres.match_twice = nres.match_raw
        /\ nres.hplc_twice = nres.hplc_raw

\* Both normalizers changed the raw name, to a non-empty key, and ran again.
C4_Witness ==
    /\ npc = "done"
    /\ nres.match_raw # raw /\ nres.match_raw # <<>>
    /\ nres.hplc_raw # raw /\ nres.hplc_raw # <<>>
    /\ nres.match_raw # nres.hplc_raw

-----------------------------------------------------------------------------
(* C5 *)

-----------------------------------------------------------------------------
(* C6 *)

-----------------------------------------------------------------------------
(* plot_hplc writes the PNG of a column; make_hplc_pptx matches that file  *)
(* with the header of the page CSV the column came from.                   *)

\* Most pieces a header cell is put together from.
MaxPieces == 3

HeaderPieces ==
    { <<"A">>, <<"b">>, <<" ">>, <<"-">>, <<":">>, <<"_">>, <<".">>, <<"(">>,
      <<"H", "P", "L", "C">>,
      <<"c", "h", "r", "o", "m", "a", "t", "o", "g", "r", "a", "m">>,
      P3DISTINCT, CHROM }

RECURSIVE Concat(_)
Concat(ps) == IF ps = <<>> THEN <<>> ELSE Head(ps) \o Concat(Tail(ps))

\* Header cells of a page CSV that pandas keeps as column names.
HeaderCells == {Concat(ps) : ps \in UNION {[1..k -> HeaderPieces] : k \in 1..MaxPieces}}

FileInit ==
    /\ cell \in HeaderCells
    /\ collides \in BOOLEAN
    /\ col = <<>> /\ shown = <<>> /\ png = <<>> /\ fkeys = NoFileKeys /\ fpc = "csv"
    /\ NormIdle /\ MainIdle /\ LayoutIdle /\ WindowIdle /\ MergeIdle /\ TableIdle

\* plot_hplc: a page-3 column named like a page-1/2 column gets the suffix.
ReadPage ==
    /\ fpc = "csv"
    /\ col' = IF collides THEN cell \o P3DISTINCT ELSE cell
    /\ fpc' = "read"
    /\ UNCHANGED <<cell, collides, shown, png, fkeys, normVars, mainVars, layoutVars, windowVars, mergeVars, tableVars>>

\* plot_hplc, per column: the display name and the PNG.
SavePng ==
    /\ fpc = "read"
    /\ shown' = clean_construct_name(col)
    /\ png' = png_name(col)
    /\ fpc' = "saved"
    /\ UNCHANGED <<cell, collides, col, fkeys, normVars, mainVars, layoutVars, windowVars, mergeVars, tableVars>>

\* make_hplc_pptx.main: the key of the image file, and the keys the header of
\* the page CSV puts into the allowed set.
MatchKeys ==
    /\ fpc = "saved"
    /\ fkeys' = [file     |-> norm_name(base_name(png)),
                 header   |-> norm_name(strip(cell)),
                 distinct |-> norm_name(strip(cell) \o P3DISTINCT)]
    /\ fpc' = "matched"
    /\ UNCHANGED <<cell, collides, col, shown, png, normVars, mainVars, layoutVars, windowVars, mergeVars, tableVars>>

FileNext == ReadPage \/ SavePng \/ MatchKeys

SpecFile == FileInit /\ [][FileNext]_vars

-----------------------------------------------------------------------------
(* C7 *)

\* Neither a caption prefix nor whitespace, "-" or ":" at either end.
AlreadyClean(x) ==
    /\ caption_prefix_len(x) = 0
    /\ x # <<>> => /\ x[1] \notin WhiteSpace \cup {"-", ":"}
                   /\ x[Len(x)] \notin WhiteSpace \cup {"-", ":"}

\* C7 as stated: appending "_p3distinct" to a column name x and stripping it
\* for display returns exactly x, for every x that does not contain the suffix.
C7_RoundTripExact ==
    (fpc \in {"saved", "matched"} /\ collides /\ ~contains(cell, P3DISTINCT))
        => shown = cell

\* C7 amended: appending "_p3distinct" to a column name x that does not
\* contain the suffix and stripping it for display returns what
\* _clean_construct_name returns for x itself, which is exactly x when x has no
\* "HPLC chromatogram" caption prefix and no whitespace, "-" or ":" at its ends.
C7_RoundTripUpToCleaning ==
    (fpc \in {"saved", "matched"} /\ collides /\ ~contains(cell, P3DISTINCT))
        => /\ shown = clean_construct_name(cell)
           /\ AlreadyClean(cell) => shown = cell

\* A clean column name got the suffix and was shown without it.
C7_Witness ==
    /\ fpc = "saved" /\ collides /\ ~contains(cell, P3DISTINCT)
    /\ AlreadyClean(cell) /\ Len(cell) > MaxPieces
    /\ col = cell \o P3DISTINCT /\ shown = cell

-----------------------------------------------------------------------------
(* C9 *)

\* C9: the PNG that plot_hplc writes for a column header has, after base_name
\* stripped the "_chrom" marker, the same normalized key as the header (the one
\* carrying the suffix when plot_hplc renamed the column).
C9_FileKeyIsHeaderKey ==
    fpc = "matched" =>
        fkeys.file = (IF collides THEN fkeys.distinct ELSE fkeys.header)

-----------------------------------------------------------------------------
(* HPLC/make_hplc_pptx.py: collect_images, _read_page_constructs *)

\* a < b for two str, as sorted() compares the names of the files of a folder
RECURSIVE str_less(_, _)
str_less(a, b) ==
    IF b = <<>> THEN FALSE
    ELSE IF a = <<>> THEN TRUE
    ELSE IF Head(a) = Head(b) THEN str_less(Tail(a), Tail(b))
    ELSE CodePoint(Head(a)) < CodePoint(Head(b))

\* sorted(S)
RECURSIVE sorted(_)
sorted(S) ==
    IF S = {} THEN <<>>
    ELSE LET m == CHOOSE x \in S : \A y \in S \ {x} : str_less(x, y)
         IN  <<m>> \o sorted(S \ {m})

Exts == { <<".", "p", "n", "g">>, <<".", "j", "p", "g">>, <<".", "j", "p", "e", "g">> }

collect_images(folder) ==
    LET listed == sorted(folder)
        found  == SelectSeq(listed, LAMBDA f : str_lower(path_suffix(f)) \in Exts)
        chroms == SelectSeq(found, LAMBDA f : endswith(f, CHROM \o PNG))
    IN  IF chroms # <<>> THEN chroms ELSE found

\* re.search(r"^\s*time\b", h_clean, re.IGNORECASE), h_clean being h with every
\* no-break space turned into a space
is_time_header(h) ==
    LET h_clean == replace_char(h, "NBSP", " ")
        rest == {i \in 1..Len(h_clean) : h_clean[i] \notin WhiteSpace}
        i == IF rest = {} THEN Len(h_clean) + 1 ELSE SetMin(rest)
    IN  /\ i + 3 <= Len(h_clean)
        /\ str_lower(SubSeq(h_clean, i, i + 3)) = <<"t", "i", "m", "e">>
        /\ i + 4 <= Len(h_clean) => h_clean[i + 4] \notin WordChars

\* _read_page_constructs(page_csv): pg.arg is "none" (no argument), "missing"
\* (no such file) or "file"; pg.cells are the cells of the first line
read_page_constructs(pg) ==
    IF pg.arg # "file" THEN <<>>
    ELSE LET headers == [i \in 1..Len(pg.cells) |-> strip(pg.cells[i])]
         IN  SelectSeq(headers, LAMBDA h : ~is_time_header(h))

-----------------------------------------------------------------------------
(* HPLC/make_hplc_pptx.py: main *)

Range(q) == {q[i] : i \in 1..Len(q)}

\* The key of an image file
file_key(f) == norm_name(base_name(f))

\* The disambiguated variants are not allowed.
allowed_set_plain_only(pgs) ==
    UNION {{norm_name(c) : c \in {read_page_constructs(pgs[n])[i] :
                                    i \in 1..Len(read_page_constructs(pgs[n]))}} :
           n \in 1..4}

\* allowed, after the loop over the four pages
allowed_set(pgs) ==
    LET cs(n) == read_page_constructs(pgs[n])
    IN  UNION {UNION {{norm_name(cs(n)[i]), norm_name(cs(n)[i] \o P3DISTINCT)} :
                        i \in 1..Len(cs(n))} :
               n \in 1..4}

\* imgs, after "if allowed: imgs = [...]"
filter_allowed(found, allow) ==
    IF allow # {} THEN SelectSeq(found, LAMBDA f : file_key(f) \in allow) ELSE found

\* The first file of a key stays.
image_map_keeps_first(list) ==
    LET key == [i \in 1..Len(list) |-> file_key(list[i])]
    IN  [k \in Range(key) |-> list[SetMin({i \in 1..Len(list) : key[i] = k})]]

\* { _norm_name(base_name(p)): p for p in imgs }: the last file of a key stays
image_map(list) ==
    LET key == [i \in 1..Len(list) |-> file_key(list[i])]
    IN  [k \in Range(key) |-> list[SetMax({i \in 1..Len(list) : key[i] = k})]]

\* distinct_suffix of the call add_page_constructs(args.page<n>, ...)
distinct_suffix(n) == IF n = 3 THEN P3DISTINCT ELSE <<>>

\* The plain key is tried even after the disambiguated one was appended.
matched_keys_no_continue(c, suffix, map, seen) ==
    LET dist_norm == norm_name(c \o suffix)
        norm == norm_name(c)
        first == IF suffix # <<>> /\ dist_norm \in DOMAIN map /\ dist_norm \notin seen
                 THEN <<dist_norm>> ELSE <<>>
    IN  IF norm \in DOMAIN map /\ norm \notin seen /\ first # <<norm>>
        THEN first \o <<norm>> ELSE first

\* A key already appended is appended again.
matched_keys_ignores_seen(c, suffix, map, seen) ==
    LET dist_norm == norm_name(c \o suffix)
        norm == norm_name(c)
    IN  IF suffix # <<>> /\ dist_norm \in DOMAIN map THEN <<dist_norm>>
        ELSE IF norm \in DOMAIN map THEN <<norm>>
        ELSE <<>>

\* One turn of the loop of add_page_constructs for the raw name c: the keys
\* whose image it appends (none or one)
matched_keys(c, suffix, map, seen) ==
    LET dist_norm == norm_name(c \o suffix)
        norm == norm_name(c)
    IN  IF suffix # <<>> /\ dist_norm \in DOMAIN map /\ dist_norm \notin seen
        THEN <<dist_norm>>
        ELSE IF norm \in DOMAIN map /\ norm \notin seen THEN <<norm>>
        ELSE <<>>

\* No remaining image is appended.
remaining_nothing(list, seen) == <<>>

\* The keys are not added to seen_keys inside the loop.
remaining_no_seen(list, seen) ==
    SelectSeq(list, LAMBDA f : file_key(f) \notin seen)

\* The remaining images are taken last to first.
remaining_reversed(list, seen) ==
    LET first(i) == \A j \in (i + 1)..Len(list) : file_key(list[j]) # file_key(list[i])
        keep == {i \in 1..Len(list) : file_key(list[i]) \notin seen /\ first(i)}
        RECURSIVE build(_)
        build(K) == IF K = {} THEN <<>>
                    ELSE <<list[SetMax(K)]>> \o build(K \ {SetMax(K)})
    IN  build(keep)

\* remaining, after the loop "for p in imgs": the first image of every key that
\* is not in seen_keys, in the order of imgs
remaining(list, seen) ==
    LET F[i \in 0..Len(list)] ==
            IF i = 0 THEN [out |-> <<>>, seen |-> seen]
            ELSE LET norm == file_key(list[i])
                     before == F[i - 1]
                 IN  IF norm \notin before.seen
                     THEN [out |-> Append(before.out, list[i]),
                           seen |-> before.seen \cup {norm}]
                     ELSE before
    IN  F[Len(list)].out

-----------------------------------------------------------------------------
(* The runs of main: a folder of files and four page arguments *)

\* Most files in the folder.
MaxFiles == 3
\* Most header cells on the four pages together, time columns aside.
MaxCells == 2

FilePool ==
    { <<"A">> \o CHROM \o PNG,
      <<"A">> \o P3DISTINCT \o CHROM \o PNG,
      <<"B">> \o CHROM \o PNG,
      <<"B">> \o P3DISTINCT \o CHROM \o PNG,
      <<"_", "B", "_">> \o CHROM \o PNG }

\* The first cell of every page file is its time column.
TimeCell == <<"T", "i", "m", "e">>

CellPool == { <<"A">>, <<"(", "B", ")">> }

\* The header cells of the four pages after the time column, page by page.
Listings ==
    {l \in UNION {[1..k -> (1..4) \X CellPool] : k \in 0..MaxCells} :
        \A i \in 1..(Len(l) - 1) : l[i][1] <= l[i + 1][1]}

CellsOf(l, n) ==
    LET own == SelectSeq(l, LAMBDA e : e[1] = n)
    IN  [i \in 1..Len(own) |-> own[i][2]]

\* A page either has a CSV with a time column and some header cells, or it has
\* none: the pages without one are all not given, or all given as a path that
\* does not exist.
MainInit ==
    /\ files \in {S \in SUBSET FilePool : Cardinality(S) <= MaxFiles}
    /\ \E l \in Listings, other \in {"none", "missing"} :
          pages = [n \in 1..4 |->
                      IF CellsOf(l, n) = <<>> THEN [arg |-> other, cells |-> <<>>]
                      ELSE [arg |-> "file", cells |-> <<TimeCell>> \o CellsOf(l, n)]]
    /\ pc = "start" /\ page = 0 /\ idx = 0
    /\ imgs = <<>> /\ allowed = {} /\ img_map = <<>> /\ seen_keys = {}
    /\ ordered_imgs = <<>> /\ emitted_by = <<>>
    /\ NormIdle /\ FileIdle /\ LayoutIdle /\ WindowIdle /\ MergeIdle /\ TableIdle

\* main, lines 141-143: no image in the folder
NoImages ==
    /\ pc = "start"
    /\ collect_images(files) = <<>>
    /\ pc' = "exit"
    /\ UNCHANGED <<files, pages, page, idx, imgs, allowed, img_map, seen_keys,
                   ordered_imgs, emitted_by, normVars, fileVars, layoutVars, windowVars, mergeVars, tableVars>>

\* main, lines 141-166
Prepare ==
    /\ pc = "start"
    /\ LET found == collect_images(files)
       IN  /\ found # <<>>
           /\ allowed' = allowed_set(pages)
           /\ imgs' = filter_allowed(found, allowed')
           /\ img_map' = image_map(imgs')
    /\ seen_keys' = {}
    /\ ordered_imgs' = <<>>
    /\ emitted_by' = <<>>
    /\ pc' = "pages" /\ page' = 1 /\ idx' = 0
    /\ UNCHANGED <<files, pages, normVars, fileVars, layoutVars, windowVars, mergeVars, tableVars>>

\* add_page_constructs: one turn of "for c in constructs"
AddConstruct ==
    /\ pc = "pages"
    /\ pages[page].arg # "none"
    /\ idx < Len(read_page_constructs(pages[page]))
    /\ LET c == read_page_constructs(pages[page])[idx + 1]
           keys == matched_keys(c, distinct_suffix(page), img_map, seen_keys)
       IN  /\ ordered_imgs' = ordered_imgs \o [i \in 1..Len(keys) |-> img_map[keys[i]]]
           /\ seen_keys' = seen_keys \cup Range(keys)
           /\ emitted_by' = emitted_by \o
                 [i \in 1..Len(keys) |->
                     [page |-> page, pos |-> idx + 1, key |-> keys[i],
                      how |-> IF keys[i] = norm_name(c) THEN "plain" ELSE "distinct"]]
    /\ idx' = idx + 1
    /\ UNCHANGED <<files, pages, pc, page, imgs, allowed, img_map, normVars, fileVars, layoutVars, windowVars, mergeVars, tableVars>>

\* add_page_constructs returns: no page argument, or no raw name left
EndPage ==
    /\ pc = "pages"
    /\ pages[page].arg = "none" \/ idx = Len(read_page_constructs(pages[page]))
    /\ IF page < 4 THEN page' = page + 1 /\ pc' = pc
                   ELSE page' = page /\ pc' = "leftover"
    /\ idx' = 0
    /\ UNCHANGED <<files, pages, imgs, allowed, img_map, seen_keys, ordered_imgs,
                   emitted_by, normVars, fileVars, layoutVars, windowVars, mergeVars, tableVars>>

\* main, lines 194-205
Leftover ==
    /\ pc = "leftover"
    /\ LET rest == remaining(imgs, seen_keys)
       IN  /\ ordered_imgs' = ordered_imgs \o rest
           /\ seen_keys' = seen_keys \cup {file_key(rest[i]) : i \in 1..Len(rest)}
           /\ emitted_by' = emitted_by \o
                 [i \in 1..Len(rest) |->
                     [page |-> 5, pos |-> i, key |-> file_key(rest[i]), how |-> "leftover"]]
    /\ pc' = "done"
    /\ UNCHANGED <<files, pages, page, idx, imgs, allowed, img_map, normVars, fileVars, layoutVars, windowVars, mergeVars, tableVars>>

Next ==
    \/ NoImages
    \/ Prepare
    \/ AddConstruct
    \/ EndPage
    \/ Leftover

Spec == MainInit /\ [][Next]_vars

-----------------------------------------------------------------------------
(* Claims about main *)

Constructs(n) == read_page_constructs(pages[n])

\* The entries of ordered_imgs a page pass appended, and those of the last loop
PageEntries == {i \in 1..Len(emitted_by) : emitted_by[i].page <= 4}
LeftoverEntries == {i \in 1..Len(emitted_by) : emitted_by[i].how = "leftover"}

\* The keys page n lists: the key of every raw name, and on page 3 its
\* disambiguated key too
ListedKeys(n) ==
    LET cs == Constructs(n)
    IN  {norm_name(cs[i]) : i \in 1..Len(cs)} \cup
        {norm_name(cs[i] \o distinct_suffix(n)) : i \in 1..Len(cs)}

\* The keys the pass of page n looked up: on page 3 the plain key of a raw name
\* is not looked up when the raw name's disambiguated image was appended
TriedKeys(n) ==
    LET cs == Constructs(n)
        skipped == {emitted_by[e].pos :
                      e \in {d \in PageEntries : /\ emitted_by[d].page = n
                                                 /\ emitted_by[d].how = "distinct"}}
    IN  {norm_name(cs[i] \o distinct_suffix(n)) : i \in 1..Len(cs)} \cup
        {norm_name(cs[i]) : i \in (1..Len(cs)) \ skipped}

\* The order of the passes, with Keys(n) the keys that count as page n's
InPageOrder(Keys(_)) ==
    LET keys == [n \in 1..4 |-> Keys(n)]
        from == [i \in 1..Len(emitted_by) |-> {n \in 1..4 : emitted_by[i].key \in keys[n]}]
    IN  /\ \A i, j \in 1..Len(emitted_by) :
              i < j => /\ emitted_by[i].page <= emitted_by[j].page
                       /\ emitted_by[i].key # emitted_by[j].key
        /\ \A i \in PageEntries :
              /\ from[i] # {}
              /\ emitted_by[i].page = SetMin(from[i])
              /\ ordered_imgs[i] = img_map[emitted_by[i].key]
        /\ \A i \in 1..Len(emitted_by), j \in PageEntries :
              from[i] # {} /\ SetMin(from[i]) < SetMin(from[j]) => i < j

\* C1, as stated: the pages are processed 1, 2, 3, 4; a key is emitted once, by
\* the first page that lists it, and so before every key first listed by a
\* later page; a later listing of an emitted key adds nothing
C1_FirstListingPageEmits ==
    pc = "done" => InPageOrder(ListedKeys)

\* C1, amended: the pages are processed 1, 2, 3, 4; a key is emitted once, by
\* the first page pass that looks it up, and so before every key first looked
\* up by a later pass; page 3 looks up the plain key of a raw name only when it
\* did not append the raw name's disambiguated image
C1_FirstLookupPageEmits ==
    pc = "done" => InPageOrder(TriedKeys)

\* A key looked up by two passes was emitted by the earlier one, and another
\* entry follows it
C1_Witness ==
    /\ pc = "done"
    /\ \E i \in PageEntries : \E n \in 1..4 :
          /\ emitted_by[i].page < n
          /\ emitted_by[i].key \in TriedKeys(n)
          /\ i < Len(emitted_by)

\* C2: after the four page passes and the last loop, no two entries of
\* ordered_imgs have the same key, and there are at most as many entries as
\* img_map has keys
C2_NoDuplicateKeys ==
    pc = "done" =>
        /\ \A i, j \in 1..Len(ordered_imgs) :
              i # j => file_key(ordered_imgs[i]) # file_key(ordered_imgs[j])
        /\ Len(ordered_imgs) <= Cardinality(DOMAIN img_map)

\* Two images of the folder share a key, and several entries were emitted
C2_Witness ==
    /\ pc = "done"
    /\ Len(imgs) > Cardinality(DOMAIN img_map)
    /\ Len(ordered_imgs) >= 2
    /\ PageEntries # {}

IndexIn(list, f) == CHOOSE i \in 1..Len(list) : list[i] = f

\* C3: the images whose key no page pass emitted are appended only after the
\* four passes, one per key, after every entry of the passes and in the
\* relative order they have in the sorted list of images
C3_LeftoversLastInInputOrder ==
    /\ pc # "done" => LeftoverEntries = {}
    /\ pc = "done" =>
          /\ \A i \in LeftoverEntries, j \in PageEntries : j < i
          /\ \A i, j \in LeftoverEntries :
                i < j => IndexIn(imgs, ordered_imgs[i]) < IndexIn(imgs, ordered_imgs[j])
          /\ \A i \in LeftoverEntries, j \in PageEntries :
                file_key(ordered_imgs[i]) # emitted_by[j].key
          /\ \A k \in DOMAIN img_map :
                (\A j \in PageEntries : emitted_by[j].key # k) =>
                    Cardinality({i \in LeftoverEntries : file_key(ordered_imgs[i]) = k}) = 1

\* Two leftover images follow an image that a page emitted
C3_Witness ==
    /\ pc = "done"
    /\ PageEntries # {}
    /\ Cardinality(LeftoverEntries) >= 2

\* C8: at the end of main, allowed holds, for every raw header name c read from
\* a page, the keys of c and of c + "_p3distinct", and nothing else; when it is
\* not empty an image of the folder is in imgs iff its key is in it
C8_AllowedKeysFilterImages ==
    pc = "done" =>
        LET read == UNION {Range(Constructs(n)) : n \in 1..4}
            keys == [c \in read |-> {norm_name(c), norm_name(c \o P3DISTINCT)}]
        IN  /\ \A c \in read : keys[c] \subseteq allowed
            /\ \A k \in allowed : \E c \in read : k \in keys[c]
            /\ allowed # {} =>
                  \A f \in Range(collect_images(files)) :
                      f \in Range(imgs) <=> norm_name(base_name(f)) \in allowed

\* An image stays by its disambiguated key and another one is dropped
C8_Witness ==
    /\ pc = "done"
    /\ allowed # {}
    /\ \E f \in Range(imgs) : endswith(file_key(f), SubSeq(P3DISTINCT, 2, Len(P3DISTINCT)))
    /\ \E f \in Range(collect_images(files)) : f \notin Range(imgs)

\* C10: one turn of add_page_constructs, for the raw name c of a page, appends
\* the image of the disambiguated key when the page is page 3 and that key is an
\* unseen key of img_map, otherwise the image of the plain key when that is
\* an unseen key of img_map, otherwise nothing; the key it appends joins
\* seen_keys; the end of a page, given or not, changes neither
C10_OneEntryPerRawName ==
    [][pc = "pages" =>
          /\ pc' \in {"pages", "leftover"}
          /\ idx' = 0 => ordered_imgs' = ordered_imgs /\ seen_keys' = seen_keys
          /\ idx' = idx + 1 =>
                LET c == Constructs(page)[idx']
                    dist == norm_name(c \o P3DISTINCT)
                    plain == norm_name(c)
                    free(k) == k \in DOMAIN img_map /\ k \notin seen_keys
                    takes(k) == /\ ordered_imgs' = Append(ordered_imgs, img_map[k])
                                /\ seen_keys' = seen_keys \cup {k}
                IN  /\ page = 3 /\ free(dist) => takes(dist)
                    /\ ~(page = 3 /\ free(dist)) /\ free(plain) => takes(plain)
                    /\ ~(page = 3 /\ free(dist)) /\ ~free(plain) =>
                          ordered_imgs' = ordered_imgs /\ seen_keys' = seen_keys]_vars

\* Page 3 emitted the disambiguated image of one raw name and the plain image
\* of another, and the file of another page does not exist
C10_Witness ==
    /\ pc = "done"
    /\ \E i, j \in PageEntries :
          /\ emitted_by[i].page = 3 /\ emitted_by[i].how = "distinct"
          /\ emitted_by[j].page = 3 /\ emitted_by[j].how = "plain"
    /\ \E n \in 1..4 : pages[n].arg = "missing"


\* ======================================================================
\* Slide layout: HPLC/make_hplc_pptx.py build_pptx, THT/add_images_to_ppt.py
\* and MALDI/make_maldi_ppt.py grid_positions
\* ======================================================================

\* ---- Python floats --------------------------------------------------
\* A float is m * 2^e with |m| < 2^MantissaBits, every operation rounded to
\* the nearest such value, ties to even, as IEEE 754 does with 53 bits. The
\* lengths of the model are as much smaller than 2^MantissaBits as the EMU
\* lengths of the program are smaller than 2^53 in proportion to the number
\* of operations in a row, so that a rounding error stays below one EMU.
MantissaBits == 12

\* With(v, LAMBDA x : e) is e with x standing for the value of v, computed
\* once: the assignment x = v of the program, followed by the rest of its body
With(v, F(_)) == CHOOSE r \in {F(x) : x \in {v}} : TRUE

Abs(n) == IF n < 0 THEN 0 - n ELSE n
Sign(n) == IF n < 0 THEN 0 - 1 ELSE 1

RoundHalfEven(n, d) ==
    LET q == n \div d
        r == n % d
    IN  IF 2 * r < d THEN q
        ELSE IF 2 * r > d THEN q + 1
        ELSE q + (q % 2)

RECURSIVE ShiftUp(_, _)
ShiftUp(a, lim) == IF a >= lim THEN 0 ELSE 1 + ShiftUp(2 * a, lim)

RECURSIVE ShiftDown(_, _)
ShiftDown(a, lim) == IF a < lim THEN 0 ELSE 1 + ShiftDown(a, 2 * lim)

Zero == [m |-> 0, e |-> 0]

\* the float nearest to (n / d) * 2^e, for d > 0
fl_rat(n, d, e) ==
    IF n = 0 THEN Zero
    ELSE
    With(Abs(n), LAMBDA a :
    With(d * 2^(MantissaBits - 1), LAMBDA lo :
    With(IF a < lo THEN ShiftUp(a, lo) ELSE 0, LAMBDA up :
    With(IF a >= 2 * lo THEN ShiftDown(a, 2 * lo) ELSE 0, LAMBDA down :
    With(RoundHalfEven(a * 2^up, d * 2^down), LAMBDA m :
        IF m = 2^MantissaBits
            THEN [m |-> Sign(n) * 2^(MantissaBits - 1), e |-> e + down - up + 1]
            ELSE [m |-> Sign(n) * m, e |-> e + down - up]
    )))))

fl_int(n) == fl_rat(n, 1, 0)
fmul(x, y) ==
    With(x, LAMBDA a : With(y, LAMBDA b : fl_rat(a.m * b.m, 1, a.e + b.e)))
fdiv(x, y) ==
    With(x, LAMBDA a : With(y, LAMBDA b :
        fl_rat(Sign(b.m) * a.m, Abs(b.m), a.e - b.e)))
fneg(x) == With(x, LAMBDA a : [m |-> 0 - a.m, e |-> a.e])
fadd(x, y) ==
    With(x, LAMBDA a : With(y, LAMBDA b :
        IF a.m = 0 THEN b
        ELSE IF b.m = 0 THEN a
        ELSE LET big == IF a.e >= b.e THEN a ELSE b
                 small == IF a.e >= b.e THEN b ELSE a
             IN  IF big.e - small.e > MantissaBits + 1 THEN big
                 ELSE fl_rat(big.m * 2^(big.e - small.e) + small.m, 1, small.e)))
fsub(x, y) == fadd(x, fneg(y))
fless(x, y) == fsub(x, y).m < 0
fmin(x, y) == With(x, LAMBDA a : With(y, LAMBDA b : IF fless(b, a) THEN b ELSE a))
fmax(x, y) == With(x, LAMBDA a : With(y, LAMBDA b : IF fless(a, b) THEN b ELSE a))

\* int(x): the integer part, toward zero
int(x) ==
    With(x, LAMBDA a :
        IF a.e >= 0 THEN a.m * 2^a.e
        ELSE IF 0 - a.e > MantissaBits THEN 0
        ELSE Sign(a.m) * (Abs(a.m) \div 2^(0 - a.e)))

\* round(x): the nearest integer, halves to the even one
round(x) ==
    With(x, LAMBDA a :
        IF a.e >= 0 THEN a.m * 2^a.e
        ELSE IF 0 - a.e > MantissaBits + 1 THEN 0
        ELSE Sign(a.m) * RoundHalfEven(Abs(a.m), 2^(0 - a.e)))

\* a / b of two ints, and a decimal literal given in hundredths
truediv(a, b) == With(b, LAMBDA d : fl_rat(Sign(d) * a, Abs(d), 0))
dec(hundredths) == fl_rat(hundredths, 100, 0)

\* ---- lengths --------------------------------------------------------
\* pptx.util.Inches(x) is int(x * 914400); the model keeps the formula with
\* fewer EMU to the inch.
EmuPerInch == 20

Inches(x) == int(fmul(x, fl_int(EmuPerInch)))

Min(a, b) == IF b < a THEN b ELSE a
Max(a, b) == IF b > a THEN b ELSE a

\* one picture of a slide: the item it shows, its cell of the grid, the
\* rectangle of the cell (box_h is the part of the cell the image is fitted
\* to) and the rectangle of the picture
Placement(item, r, c, left, top, cell_w, cell_h, box_h, x, y, w, h) ==
    [item |-> item, row |-> r, col |-> c,
     cell_left |-> left, cell_top |-> top, cell_w |-> cell_w, cell_h |-> cell_h,
     box_h |-> box_h, left |-> x, top |-> y, width |-> w, height |-> h]

\* ---- HPLC/make_hplc_pptx.py build_pptx ------------------------------
\* the sizes build_pptx computes before its loop, in inches
build_pptx_grid(g) ==
    With(dec(g.w), LAMBDA slide_w_in :
    With(dec(g.h), LAMBDA slide_h_in :
    With(fdiv(dec(180), dec(150)), LAMBDA target_ratio :
    With(dec(25), LAMBDA base_margin_h :
    With(dec(25), LAMBDA base_margin_v :
    With(IF g.cols > 1 THEN fmax(Zero, dec(g.hspace)) ELSE Zero, LAMBDA hspace_in :
    With(IF g.rows > 1 THEN fmax(Zero, dec(g.vspace)) ELSE dec(5), LAMBDA vspace_in :
    With(IF g.cols > 1 THEN fmul(fl_int(g.cols - 1), hspace_in) ELSE Zero, LAMBDA total_hspace :
    With(IF g.rows > 1 THEN fmul(fl_int(g.rows - 1), vspace_in) ELSE Zero, LAMBDA total_vspace :
    With(fsub(fsub(slide_w_in, fmul(fl_int(2), base_margin_h)), total_hspace), LAMBDA avail_w :
    With(fsub(fsub(slide_h_in, fmul(fl_int(2), base_margin_v)), total_vspace), LAMBDA avail_h :
    With(fdiv(avail_w, fl_int(g.cols)), LAMBDA slot_w :
    With(fdiv(avail_h, fl_int(g.rows)), LAMBDA slot_h :
    With(fmin(slot_w, fmul(slot_h, target_ratio)), LAMBDA fit_w :
    With(fdiv(fit_w, target_ratio), LAMBDA fit_h :
    With(fadd(fmul(fl_int(g.cols), fit_w), total_hspace), LAMBDA grid_w :
    With(fadd(fmul(fl_int(g.rows), fit_h), total_vspace), LAMBDA grid_h :
    With(fmax(Zero, fdiv(fsub(slide_w_in, grid_w), fl_int(2))), LAMBDA margin_h :
    With(fmax(Zero, fdiv(fsub(slide_h_in, grid_h), fl_int(2))), LAMBDA margin_v :
        [slide_w |-> Inches(slide_w_in), slide_h |-> Inches(slide_h_in),
         fit_w |-> fit_w, fit_h |-> fit_h,
         hspace_in |-> hspace_in, vspace_in |-> vspace_in,
         grid_w |-> grid_w, grid_h |-> grid_h,
         margin_h |-> margin_h, margin_v |-> margin_v]
    )))))))))))))))))))

\* the picture build_pptx adds for image number item at cursor (r, c)
build_pptx_picture(g, item, r, c) ==
    With(build_pptx_grid(g), LAMBDA G :
    With(Inches(fadd(G.margin_h, fmul(fl_int(c), fadd(G.fit_w, G.hspace_in)))), LAMBDA img_left :
    With(Inches(fadd(G.margin_v, fmul(fl_int(r), fadd(G.fit_h, G.vspace_in)))), LAMBDA img_top :
    With(Inches(G.fit_w), LAMBDA width :
    With(Inches(G.fit_h), LAMBDA height :
        Placement(item, r, c, img_left, img_top, width, height, height,
                  img_left, img_top, width, height)
    )))))

\* ---- THT/add_images_to_ppt.py ---------------------------------------
\* add_fill_grid_slide_no_captions: the grid
fill_grid(g) ==
    With(Inches(dec(g.w)), LAMBDA slide_w :
    With(Inches(dec(g.h)), LAMBDA slide_h :
    With(Inches(dec(g.margin)), LAMBDA margin :
    With(Inches(dec(g.hspace)), LAMBDA hspace :
    With(Inches(dec(g.vspace)), LAMBDA vspace :
    With(slide_w - 2 * margin - hspace * (g.cols - 1), LAMBDA avail_w :
    With(slide_h - 2 * margin - vspace * (g.rows - 1), LAMBDA avail_h :
    With(int(truediv(avail_w, g.cols)), LAMBDA cell_w :
    With(fdiv(dec(650), dec(500)), LAMBDA aspect_ratio :
    With(int(fdiv(fl_int(cell_w), aspect_ratio)), LAMBDA cell_h_tight :
    With(int(truediv(avail_h, g.rows)), LAMBDA cell_h_max :
    With(Min(cell_h_tight, cell_h_max), LAMBDA cell_h :
    With(cell_w * g.cols + hspace * (g.cols - 1), LAMBDA grid_w :
    With(cell_h * g.rows + vspace * (g.rows - 1), LAMBDA grid_h :
        [slide_w |-> slide_w, slide_h |-> slide_h, margin |-> margin,
         hspace |-> hspace, vspace |-> vspace,
         cell_w |-> cell_w, cell_h |-> cell_h, box_h |-> cell_h,
         origin_left |-> int(truediv(slide_w - grid_w, 2)),
         origin_top |-> int(truediv(slide_h - grid_h, 2))]
    ))))))))))))))

\* (a variant that fills row by row whatever fill_order is)
fill_picture_ignores_order(g, item, i, size) ==
    With(fill_grid(g), LAMBDA G :
    With(i % g.cols, LAMBDA c :
    With(i \div g.cols, LAMBDA r :
    With(G.origin_left + c * (G.cell_w + G.hspace), LAMBDA left :
    With(G.origin_top + r * (G.cell_h + G.vspace), LAMBDA top :
    With(truediv(G.cell_w, size.w), LAMBDA scale_w :
    With(truediv(G.cell_h, size.h), LAMBDA scale_h :
    With(fmin(scale_w, scale_h), LAMBDA scale :
    With(int(fmul(fl_int(size.w), scale)), LAMBDA new_w :
    With(int(fmul(fl_int(size.h), scale)), LAMBDA new_h :
        Placement(item, r, c, left, top, G.cell_w, G.cell_h, G.cell_h,
                  int(fadd(fl_int(left), truediv(G.cell_w - new_w, 2))),
                  int(fadd(fl_int(top), truediv(G.cell_h - new_h, 2))),
                  new_w, new_h)
    ))))))))))

\* (a variant that scales by the larger of the two ratios)
fill_picture_cover(g, item, i, size) ==
    With(fill_grid(g), LAMBDA G :
    With(IF g.order = "column" THEN i \div g.rows ELSE i % g.cols, LAMBDA c :
    With(IF g.order = "column" THEN i % g.rows ELSE i \div g.cols, LAMBDA r :
    With(G.origin_left + c * (G.cell_w + G.hspace), LAMBDA left :
    With(G.origin_top + r * (G.cell_h + G.vspace), LAMBDA top :
    With(truediv(G.cell_w, size.w), LAMBDA scale_w :
    With(truediv(G.cell_h, size.h), LAMBDA scale_h :
    With(fmax(scale_w, scale_h), LAMBDA scale :
    With(int(fmul(fl_int(size.w), scale)), LAMBDA new_w :
    With(int(fmul(fl_int(size.h), scale)), LAMBDA new_h :
        Placement(item, r, c, left, top, G.cell_w, G.cell_h, G.cell_h,
                  int(fadd(fl_int(left), truediv(G.cell_w - new_w, 2))),
                  int(fadd(fl_int(top), truediv(G.cell_h - new_h, 2))),
                  new_w, new_h)
    ))))))))))

\* add_fill_grid_slide_no_captions: picture i (from 0) of the slide
fill_picture(g, item, i, size) ==
    With(fill_grid(g), LAMBDA G :
    With(IF g.order = "column" THEN i \div g.rows ELSE i % g.cols, LAMBDA c :
    With(IF g.order = "column" THEN i % g.rows ELSE i \div g.cols, LAMBDA r :
    With(G.origin_left + c * (G.cell_w + G.hspace), LAMBDA left :
    With(G.origin_top + r * (G.cell_h + G.vspace), LAMBDA top :
    With(truediv(G.cell_w, size.w), LAMBDA scale_w :
    With(truediv(G.cell_h, size.h), LAMBDA scale_h :
    With(fmin(scale_w, scale_h), LAMBDA scale :
    With(int(fmul(fl_int(size.w), scale)), LAMBDA new_w :
    With(int(fmul(fl_int(size.h), scale)), LAMBDA new_h :
        Placement(item, r, c, left, top, G.cell_w, G.cell_h, G.cell_h,
                  int(fadd(fl_int(left), truediv(G.cell_w - new_w, 2))),
                  int(fadd(fl_int(top), truediv(G.cell_h - new_h, 2))),
                  new_w, new_h)
    ))))))))))

\* add_fill_grid_slide_no_captions(prs, its, ...): the slide it adds; base
\* is the number of items before its
add_fill_grid_slide_no_captions(g, its, base) ==
    [k \in 1..Min(Len(its), g.cols * g.rows) |->
        fill_picture(g, base + k, k - 1, its[k])]

\* add_captioned_grid_slide: the grid; box_h is img_h
captioned_grid(g) ==
    With(Inches(dec(g.w)), LAMBDA slide_w :
    With(Inches(dec(g.h)), LAMBDA slide_h :
    With(Inches(dec(g.margin)), LAMBDA margin :
    With(Inches(dec(g.hspace)), LAMBDA hspace :
    With(Inches(dec(g.vspace)), LAMBDA vspace :
    With(Inches(dec(18)), LAMBDA caption_h :
    With(slide_w - 2 * margin - hspace * (g.cols - 1), LAMBDA avail_w :
    With(slide_h - 2 * margin - vspace * (g.rows - 1), LAMBDA avail_h :
    With(int(truediv(avail_w, g.cols)), LAMBDA cell_w :
    With(int(truediv(avail_h, g.rows)), LAMBDA cell_h :
    With(Max(1, cell_h - caption_h), LAMBDA img_h :
    With(cell_w * g.cols + hspace * (g.cols - 1), LAMBDA grid_w :
    With(cell_h * g.rows + vspace * (g.rows - 1), LAMBDA grid_h :
        [slide_w |-> slide_w, slide_h |-> slide_h, margin |-> margin,
         hspace |-> hspace, vspace |-> vspace,
         cell_w |-> cell_w, cell_h |-> cell_h, box_h |-> img_h,
         origin_left |-> int(truediv(slide_w - grid_w, 2)),
         origin_top |-> int(truediv(slide_h - grid_h, 2))]
    )))))))))))))

\* add_captioned_grid_slide: picture i (from 0) of the slide
captioned_picture(g, item, i, size) ==
    With(captioned_grid(g), LAMBDA G :
    With(i \div g.cols, LAMBDA r :
    With(i % g.cols, LAMBDA c :
    With(G.origin_left + c * (G.cell_w + G.hspace), LAMBDA left :
    With(G.origin_top + r * (G.cell_h + G.vspace), LAMBDA top :
    With(truediv(G.cell_w, size.w), LAMBDA scale_w :
    With(truediv(G.box_h, size.h), LAMBDA scale_h :
    With(fmax(scale_w, scale_h), LAMBDA scale :
    With(int(fmul(fl_int(size.w), scale)), LAMBDA new_w :
    With(int(fmul(fl_int(size.h), scale)), LAMBDA new_h :
        Placement(item, r, c, left, top, G.cell_w, G.cell_h, G.box_h,
                  int(fadd(fl_int(left), truediv(G.cell_w - new_w, 2))),
                  int(fadd(fl_int(top), truediv(G.box_h - new_h, 2))),
                  new_w, new_h)
    ))))))))))

\* add_captioned_grid_slide(prs, items, cols, rows): the one slide it adds
add_captioned_grid_slide(g, its) ==
    [k \in 1..Min(Len(its), g.cols * g.rows) |->
        captioned_picture(g, k, k - 1, its[k])]

\* add_grid_slides: the grid of every slide
grid_slides_grid(g) ==
    With(Inches(dec(g.w)), LAMBDA slide_w :
    With(Inches(dec(g.h)), LAMBDA slide_h :
    With(Inches(Zero), LAMBDA hspace :
    With(Inches(dec(5)), LAMBDA vspace :
    With(Inches(dec(192)), LAMBDA target_cell_w :
    With(Inches(dec(160)), LAMBDA target_cell_h :
    With(hspace * (g.cols - 1), LAMBDA total_spacing_w :
    With(vspace * (g.rows - 1), LAMBDA total_spacing_h :
    With(target_cell_w * g.cols + total_spacing_w, LAMBDA target_grid_w :
    With(target_cell_h * g.rows + total_spacing_h, LAMBDA target_grid_h :
    With(Inches(dec(50)), LAMBDA margin :
    With(slide_w - margin * 2, LAMBDA max_grid_w :
    With(slide_h - margin * 2, LAMBDA max_grid_h :
    With(fmin(fmin(fl_int(1), truediv(max_grid_w, target_grid_w)), truediv(max_grid_h, target_grid_h)), LAMBDA scale_grid :
    With(int(fmul(fl_int(target_cell_w), scale_grid)), LAMBDA cell_w :
    With(int(fmul(fl_int(target_cell_h), scale_grid)), LAMBDA cell_h :
    With(cell_w * g.cols + total_spacing_w, LAMBDA grid_w :
    With(cell_h * g.rows + total_spacing_h, LAMBDA grid_h :
        [slide_w |-> slide_w, slide_h |-> slide_h, margin |-> margin,
         hspace |-> hspace, vspace |-> vspace,
         cell_w |-> cell_w, cell_h |-> cell_h, box_h |-> cell_h,
         origin_left |-> int(truediv(slide_w - grid_w, 2)),
         origin_top |-> int(truediv(slide_h - grid_h, 2))]
    ))))))))))))))))))

\* add_grid_slides: picture i (from 0) of a chunk
grid_slides_picture(g, item, i, size) ==
    With(grid_slides_grid(g), LAMBDA G :
    With(i \div g.cols, LAMBDA r :
    With(i % g.cols, LAMBDA c :
    With(G.origin_left + c * (G.cell_w + G.hspace), LAMBDA left :
    With(G.origin_top + r * (G.cell_h + G.vspace), LAMBDA top :
    With(truediv(G.cell_w, size.w), LAMBDA scale_w :
    With(truediv(G.cell_h, size.h), LAMBDA scale_h :
    With(fmax(scale_w, scale_h), LAMBDA scale :
    With(int(fmul(fl_int(size.w), scale)), LAMBDA new_w :
    With(int(fmul(fl_int(size.h), scale)), LAMBDA new_h :
        Placement(item, r, c, left, top, G.cell_w, G.cell_h, G.cell_h,
                  int(fadd(fl_int(left), truediv(G.cell_w - new_w, 2))),
                  int(fadd(fl_int(top), truediv(G.cell_h - new_h, 2))),
                  new_w, new_h)
    ))))))))))

\* add_grid_slides: the slide of one chunk
grid_slides_slide(g, its, base) ==
    [k \in 1..Len(its) |-> grid_slides_picture(g, base + k, k - 1, its[k])]

\* ---- MALDI/make_maldi_ppt.py ----------------------------------------
COLS == 4
ROWS == 4
IMG_W_IN == 196
HSPACE_IN == 5
VSPACE_IN == 20

\* the lengths main and grid_positions work with, in inches: main calls
\* grid_positions once, with the constants of the module, the size of a
\* default presentation (10 x 7.5 in) and the default margin
maldi_grid ==
    With(dec(IMG_W_IN), LAMBDA img_w_in :
    With(fmul(img_w_in, fdiv(fl_int(5), fl_int(6))), LAMBDA img_h_in :
    With(dec(HSPACE_IN), LAMBDA hspace_in :
    With(dec(VSPACE_IN), LAMBDA vspace_in :
    With(fl_int(10), LAMBDA page_w_in :
    With(dec(750), LAMBDA page_h_in :
    With(dec(50), LAMBDA margin_in :
    With(fadd(fmul(fl_int(COLS), img_w_in), fmul(fl_int(COLS - 1), hspace_in)), LAMBDA grid_w :
    With(fadd(fmul(fl_int(ROWS), img_h_in), fmul(fl_int(ROWS - 1), vspace_in)), LAMBDA grid_h :
    With(fadd(fdiv(fsub(fsub(page_w_in, fmul(fl_int(2), margin_in)), grid_w), fl_int(2)), margin_in), LAMBDA left :
    With(fadd(fdiv(fsub(fsub(page_h_in, fmul(fl_int(2), margin_in)), grid_h), fl_int(2)), margin_in), LAMBDA top :
        [img_w_in |-> img_w_in, img_h_in |-> img_h_in,
         hspace_in |-> hspace_in, vspace_in |-> vspace_in,
         page_w_in |-> page_w_in, page_h_in |-> page_h_in, margin_in |-> margin_in,
         grid_w |-> grid_w, grid_h |-> grid_h, left |-> left, top |-> top]
    )))))))))))

\* grid_positions(...)[j]: the top-left corner of image j (from 0), in inches
grid_positions(j) ==
    With(maldi_grid, LAMBDA G :
    With(j \div COLS, LAMBDA r :
    With(j % COLS, LAMBDA c :
        [x |-> fadd(G.left, fmul(fl_int(c), fadd(G.img_w_in, G.hspace_in))),
         y |-> fadd(G.top, fmul(fl_int(r), fadd(G.img_h_in, G.vspace_in))),
         row |-> r, col |-> c]
    )))

\* the picture main adds for image j (from 0) of a slide: its cell is
\* Inches(IMG_W_IN) wide and Inches(img_h_in) high; add_picture is given the
\* width only, so the picture keeps the proportions of the image and its
\* height is the native height times width / native width, rounded
maldi_picture(item, j, size) ==
    With(grid_positions(j), LAMBDA P :
    With(Inches(P.x), LAMBDA x :
    With(Inches(P.y), LAMBDA y :
    With(Inches(maldi_grid.img_w_in), LAMBDA width :
    With(Inches(maldi_grid.img_h_in), LAMBDA cell_h :
    With(round(fmul(fl_int(size.h), truediv(width, size.w))), LAMBDA height :
        Placement(item, P.row, P.col, x, y, width, cell_h, cell_h, x, y, width, height)
    ))))))

\* ---- the calls the model makes ---------------------------------------
MaxCols == 4
MaxRows == 3
MaxItems == 13
MaxPerSlide == 4

Functions == {"build_pptx", "add_fill_grid_slides_no_captions_paginated",
              "add_grid_slides", "add_captioned_grid_slide"}

\* lengths of the arguments are in hundredths of an inch
SlidePool == {<<650, 750>>, <<1000, 345>>, <<100, 100>>}
MarginPool == {5, 25}
SpacePool == {0, 5, 80}
SizePool == <<[w |-> 120, h |-> 100], [w |-> 100, h |-> 120], [w |-> 47, h |-> 3]>>

Shapes == (1..MaxCols) \X (1..MaxRows)
SmallShapes == {s \in Shapes : s[1] * s[2] <= MaxPerSlide}

Config(s, sl, margin, hs, vs, order) ==
    [cols |-> s[1], rows |-> s[2], w |-> sl[1], h |-> sl[2],
     margin |-> margin, hspace |-> hs, vspace |-> vs, order |-> order]

\* n images whose native sizes run through SizePool from position shift
Items(n, shift) == [k \in 1..n |-> SizePool[((k - 1 + shift) % Len(SizePool)) + 1]]

\* the arguments a function does not take keep one value
Margins(f) ==
    IF f \in {"add_fill_grid_slides_no_captions_paginated", "add_captioned_grid_slide"}
        THEN MarginPool ELSE {25}
Spaces(f) == IF f = "add_grid_slides" THEN {0} ELSE SpacePool
Orders(f) ==
    IF f = "add_fill_grid_slides_no_captions_paginated" THEN {"row", "column"} ELSE {"row"}
Shifts(f) == IF f = "build_pptx" THEN {0} ELSE 0..(Len(SizePool) - 1)

\* any number of images on one canvas, for every grid shape
PaginationCase ==
    \E f \in Functions, s \in Shapes, n \in 0..MaxItems : \E o \in Orders(f) :
        /\ fn = f
        /\ grid = Config(s, <<650, 750>>, 25, 0, 5, o)
        /\ items = Items(n, 0)

\* one slide of images of several sizes, for every canvas, margin and spacing
GeometryCase ==
    \E f \in Functions, s \in SmallShapes, sl \in SlidePool, n \in 1..MaxPerSlide :
    \E m \in Margins(f), hs \in Spaces(f), vs \in Spaces(f), o \in Orders(f),
       shift \in Shifts(f) :
        /\ n <= s[1] * s[2]
        /\ fn = f
        /\ grid = Config(s, sl, m, hs, vs, o)
        /\ items = Items(n, shift)

\* make_maldi_ppt.py main: its grid is fixed, and it exits without images
MaldiCase ==
    \E n \in {1, COLS * ROWS, COLS * ROWS + 1} :
        /\ fn = "make_maldi_ppt"
        /\ grid = Config(<<COLS, ROWS>>, <<1000, 750>>, 50, HSPACE_IN, VSPACE_IN, "row")
        /\ items = Items(n, 0)

LayoutInit ==
    /\ NormIdle /\ FileIdle /\ MainIdle /\ WindowIdle /\ MergeIdle /\ TableIdle
    /\ slides = <<>>
    /\ cur = [idx |-> 0, r |-> 0, c |-> 0]
    /\ lpc = "call"
    /\ PaginationCase \/ GeometryCase \/ MaldiCase

per_slide == grid.cols * grid.rows
chunk == SubSeq(items, cur.idx + 1, Min(Len(items), cur.idx + per_slide))

\* build_pptx lines 66-103: sizes, the first slide, the cursor
BuildStart ==
    /\ fn = "build_pptx" /\ lpc = "call"
    /\ slides' = <<<<>>>>
    /\ cur' = [idx |-> 0, r |-> 0, c |-> 0]
    /\ lpc' = "loop"
    /\ UNCHANGED <<fn, grid, items, normVars, fileVars, mainVars, windowVars, mergeVars, tableVars>>

\* (a variant that opens a slide at the end of every row)
BuildPlace_new_slide_every_row ==
    /\ fn = "build_pptx" /\ lpc = "loop"
    /\ cur.idx < Len(items)
    /\ LET pic == build_pptx_picture(grid, cur.idx + 1, cur.r, cur.c)
           placed == [slides EXCEPT ![Len(slides)] = Append(@, pic)]
           c1 == cur.c + 1
           wrap == c1 >= grid.cols
           more == wrap /\ cur.idx < Len(items) - 1
       IN  /\ slides' = IF more THEN Append(placed, <<>>) ELSE placed
           /\ cur' = [idx |-> cur.idx + 1, r |-> 0, c |-> IF wrap THEN 0 ELSE c1]
    /\ UNCHANGED <<fn, grid, items, lpc, normVars, fileVars, mainVars, windowVars, mergeVars, tableVars>>

\* build_pptx lines 105-120: one turn of the loop
BuildPlace ==
    /\ fn = "build_pptx" /\ lpc = "loop"
    /\ cur.idx < Len(items)
    /\ LET pic == build_pptx_picture(grid, cur.idx + 1, cur.r, cur.c)
           placed == [slides EXCEPT ![Len(slides)] = Append(@, pic)]
           c1 == cur.c + 1
           wrap == c1 >= grid.cols
           r1 == IF wrap THEN cur.r + 1 ELSE cur.r
           more == wrap /\ r1 >= grid.rows /\ cur.idx < Len(items) - 1
       IN  /\ slides' = IF more THEN Append(placed, <<>>) ELSE placed
           /\ cur' = [idx |-> cur.idx + 1,
                      r |-> IF more THEN 0 ELSE r1,
                      c |-> IF wrap THEN 0 ELSE c1]
    /\ UNCHANGED <<fn, grid, items, lpc, normVars, fileVars, mainVars, windowVars, mergeVars, tableVars>>

\* build_pptx line 122
BuildSave ==
    /\ fn = "build_pptx" /\ lpc = "loop"
    /\ cur.idx = Len(items)
    /\ lpc' = "done"
    /\ UNCHANGED <<fn, grid, items, slides, cur, normVars, fileVars, mainVars, windowVars, mergeVars, tableVars>>

\* add_fill_grid_slides_no_captions_paginated: one turn of its loop, which
\* is one call of add_fill_grid_slide_no_captions
PaginatedSlide ==
    /\ fn = "add_fill_grid_slides_no_captions_paginated" /\ lpc = "call"
    /\ cur.idx < Len(items)
    /\ slides' = Append(slides, add_fill_grid_slide_no_captions(grid, chunk, cur.idx))
    /\ cur' = [cur EXCEPT !.idx = @ + per_slide]
    /\ UNCHANGED <<fn, grid, items, lpc, normVars, fileVars, mainVars, windowVars, mergeVars, tableVars>>

PaginatedReturn ==
    /\ fn = "add_fill_grid_slides_no_captions_paginated" /\ lpc = "call"
    /\ cur.idx >= Len(items)
    /\ lpc' = "done"
    /\ UNCHANGED <<fn, grid, items, slides, cur, normVars, fileVars, mainVars, windowVars, mergeVars, tableVars>>

\* add_grid_slides (start_idx = 0): the slide of one chunk
GridSlidesSlide ==
    /\ fn = "add_grid_slides" /\ lpc = "call"
    /\ cur.idx < Len(items)
    /\ slides' = Append(slides, grid_slides_slide(grid, chunk, cur.idx))
    /\ cur' = [cur EXCEPT !.idx = @ + per_slide]
    /\ UNCHANGED <<fn, grid, items, lpc, normVars, fileVars, mainVars, windowVars, mergeVars, tableVars>>

GridSlidesReturn ==
    /\ fn = "add_grid_slides" /\ lpc = "call"
    /\ cur.idx >= Len(items)
    /\ lpc' = "done"
    /\ UNCHANGED <<fn, grid, items, slides, cur, normVars, fileVars, mainVars, windowVars, mergeVars, tableVars>>

\* add_captioned_grid_slide: the whole call
CaptionedSlide ==
    /\ fn = "add_captioned_grid_slide" /\ lpc = "call"
    /\ slides' = Append(slides, add_captioned_grid_slide(grid, items))
    /\ lpc' = "done"
    /\ UNCHANGED <<fn, grid, items, cur, normVars, fileVars, mainVars, windowVars, mergeVars, tableVars>>

\* make_maldi_ppt.py main: one turn of the loop over images_main
MaldiSlide ==
    /\ fn = "make_maldi_ppt" /\ lpc = "call"
    /\ cur.idx < Len(items)
    /\ slides' = Append(slides, [j \in 1..Len(chunk) |-> maldi_picture(cur.idx + j, j - 1, chunk[j])])
    /\ cur' = [cur EXCEPT !.idx = @ + per_slide]
    /\ UNCHANGED <<fn, grid, items, lpc, normVars, fileVars, mainVars, windowVars, mergeVars, tableVars>>

MaldiSave ==
    /\ fn = "make_maldi_ppt" /\ lpc = "call"
    /\ cur.idx >= Len(items)
    /\ lpc' = "done"
    /\ UNCHANGED <<fn, grid, items, slides, cur, normVars, fileVars, mainVars, windowVars, mergeVars, tableVars>>

LayoutNext ==
    \/ BuildStart \/ BuildPlace \/ BuildSave
    \/ PaginatedSlide \/ PaginatedReturn
    \/ GridSlidesSlide \/ GridSlidesReturn
    \/ CaptionedSlide
    \/ MaldiSlide \/ MaldiSave

SpecLayout == LayoutInit /\ [][LayoutNext]_vars

\* ---- claims about pagination ------------------------------------------
Paginating == {"build_pptx", "add_fill_grid_slides_no_captions_paginated"}
CeilDiv(n, d) == (n + d - 1) \div d

\* C11: when a paginating function (build_pptx,
\* add_fill_grid_slides_no_captions_paginated) has returned, the number of
\* slides is ceil(N / (rows * cols)) for N items; 12 items on a 4 x 3 grid
\* give 1 slide, 13 give 2 with 1 item on the second.
C11_SlideCountIsCeiling ==
    (lpc = "done" /\ fn \in Paginating)
        => Len(slides) = CeilDiv(Len(items), per_slide)

\* the number of pictures on the slides so far
RECURSIVE PlacedOn(_)
PlacedOn(ss) == IF ss = <<>> THEN 0 ELSE Len(Head(ss)) + PlacedOn(Tail(ss))

\* the pictures are the items in order, per_slide to a slide: picture k of
\* slide s shows item (s - 1) * per_slide + k, every slide but the last is
\* full, and at the return every item has its picture
InOrderOnSlides ==
    /\ \A s \in 1..Len(slides) : \A k \in 1..Len(slides[s]) :
           slides[s][k].item = (s - 1) * per_slide + k
    /\ \A s \in 1..Len(slides) : Len(slides[s]) <= per_slide
    /\ \A s \in 1..(Len(slides) - 1) : Len(slides[s]) = per_slide
    /\ lpc = "done" => PlacedOn(slides) = Len(items)

\* a step that adds a slide leaves the slide before it full, has an item
\* for the new slide, and (in build_pptx) resets the cursor
OpensSlideWhenFull ==
    Len(slides') > Len(slides) =>
        /\ Len(slides) > 0 => Len(slides'[Len(slides)]) = per_slide
        /\ Len(slides'[Len(slides')]) > 0 \/ PlacedOn(slides') < Len(items)
        /\ fn = "build_pptx" => cur'.r = 0 /\ cur'.c = 0

C13_CellOfKthItem ==
    \A s \in 1..Len(slides) : \A k \in 1..Len(slides[s]) :
        LET p == slides[s][k]
        IN  /\ IF fn = "add_fill_grid_slides_no_captions_paginated" /\ grid.order = "column"
                  THEN p.col = (k - 1) \div grid.rows /\ p.row = (k - 1) % grid.rows
                  ELSE p.row = (k - 1) \div grid.cols /\ p.col = (k - 1) % grid.cols
            /\ 0 <= p.row /\ p.row < grid.rows
            /\ 0 <= p.col /\ p.col < grid.cols
            /\ \A k2 \in 1..Len(slides[s]) :
                   k2 # k => <<slides[s][k2].row, slides[s][k2].col>> # <<p.row, p.col>>

\* a full slide filled column by column on a grid that is not square, and
\* a full slide of build_pptx with more than one row and column
C13_Witness ==
    /\ lpc = "done" /\ Len(slides) >= 1
    /\ Len(slides[1]) = per_slide
    /\ grid.rows > 1 /\ grid.cols > 1 /\ grid.rows # grid.cols
    /\ \/ fn = "add_fill_grid_slides_no_captions_paginated" /\ grid.order = "column"
       \/ fn = "build_pptx"

\* C14: laying out an empty item list produces zero slides, in every
\* paginating layout function (the model has no error outcome: none of
\* the functions raises on an empty list).
C14_EmptyListGivesNoSlide ==
    (lpc = "done" /\ fn \in Paginating /\ Len(items) = 0) => Len(slides) = 0

\* C15: a configuration that leaves a non-positive cell width or height is
\* refused before anything is drawn: every picture on a slide lies in a
\* cell of positive width and height (the cell is the picture itself in
\* build_pptx, which stretches every image to it).
C15_NoPictureInNonPositiveCell ==
    \A s \in 1..Len(slides) : \A k \in 1..Len(slides[s]) :
        slides[s][k].cell_w > 0 /\ slides[s][k].cell_h > 0

\* the grid the running function computed for its parameters, as the widths
\* cell_w * cols + hspace * (cols - 1) and the room canvas - 2 * margin
\* (inches as floats in build_pptx and make_maldi_ppt, EMU in the others)
GridFitsFloat(grid_w, grid_h, page_w, page_h, margin) ==
    /\ ~fless(fsub(page_w, fmul(fl_int(2), margin)), grid_w)
    /\ ~fless(fsub(page_h, fmul(fl_int(2), margin)), grid_h)

GridFitsEmu(G) ==
    /\ G.cell_w * grid.cols + G.hspace * (grid.cols - 1) <= G.slide_w - 2 * G.margin
    /\ G.cell_h * grid.rows + G.vspace * (grid.rows - 1) <= G.slide_h - 2 * G.margin

GridFits ==
    CASE fn = "build_pptx" ->
            With(build_pptx_grid(grid), LAMBDA G :
                GridFitsFloat(G.grid_w, G.grid_h, dec(grid.w), dec(grid.h), dec(25)))
      [] fn = "make_maldi_ppt" ->
            With(maldi_grid, LAMBDA G :
                GridFitsFloat(G.grid_w, G.grid_h, G.page_w_in, G.page_h_in, G.margin_in))
      [] fn = "add_fill_grid_slides_no_captions_paginated" -> GridFitsEmu(fill_grid(grid))
      [] fn = "add_captioned_grid_slide" -> GridFitsEmu(captioned_grid(grid))
      [] fn = "add_grid_slides" -> GridFitsEmu(grid_slides_grid(grid))

\* C16: whenever a layout function has drawn a slide, its final grid fits
\* between the margins: cell_w * cols + hspace * (cols - 1) <= canvas_w -
\* 2 * margin, and the same for the height.
C16_GridFitsBetweenMargins ==
    Len(slides) > 0 => GridFits

\* the pictures drawn so far, as <<slide, index on the slide>>
Pictures == UNION {{<<s, k>> : k \in 1..Len(slides[s])} : s \in 1..Len(slides)}
Pic(sk) == slides[sk[1]][sk[2]]

\* the empty bands left and right of (above and below) the picture in the
\* box it was fitted to differ by at most one unit
CentredAcross(p) ==
    Abs((p.left - p.cell_left) - ((p.cell_left + p.cell_w) - (p.left + p.width))) <= 1
CentredDown(p, h) ==
    Abs((p.top - p.cell_top) - ((p.cell_top + h) - (p.top + p.height))) <= 1

\* C17: under contain fit (add_fill_grid_slide_no_captions), in a cell of
\* positive width and height, the picture is never wider nor higher than
\* its cell and is centred in it on both axes within one unit.
C17_ContainFitsInsideCell ==
    fn = "add_fill_grid_slides_no_captions_paginated" =>
        \A sk \in Pictures :
            (Pic(sk).cell_w > 0 /\ Pic(sk).cell_h > 0) =>
                /\ Pic(sk).width <= Pic(sk).cell_w
                /\ Pic(sk).height <= Pic(sk).cell_h
                /\ CentredAcross(Pic(sk)) /\ CentredDown(Pic(sk), Pic(sk).cell_h)

\* a picture scaled to the width of its cell that is lower than the cell
\* and sits below the cell's top edge
C17_Witness ==
    /\ fn = "add_fill_grid_slides_no_captions_paginated"
    /\ \E sk \in Pictures :
           /\ Pic(sk).cell_w > 0 /\ Pic(sk).cell_h > 0
           /\ Pic(sk).width > 0 /\ Pic(sk).width >= Pic(sk).cell_w - 1
           /\ Pic(sk).height < Pic(sk).cell_h - 1
           /\ Pic(sk).top > Pic(sk).cell_top

\* C18: under cover fit (add_grid_slides, add_captioned_grid_slide), in a
\* cell of positive width and height, the picture is at least as wide and
\* as high as its cell and is centred in the cell.
C18_CoverFillsCell ==
    fn \in {"add_grid_slides", "add_captioned_grid_slide"} =>
        \A sk \in Pictures :
            (Pic(sk).cell_w > 0 /\ Pic(sk).cell_h > 0) =>
                /\ Pic(sk).width >= Pic(sk).cell_w
                /\ Pic(sk).height >= Pic(sk).cell_h
                /\ CentredAcross(Pic(sk)) /\ CentredDown(Pic(sk), Pic(sk).cell_h)

canvas_w == Inches(dec(grid.w))
canvas_h == Inches(dec(grid.h))
InsideCanvas(p) ==
    /\ p.left >= 0 /\ p.top >= 0
    /\ p.left + p.width <= canvas_w
    /\ p.top + p.height <= canvas_h

\* C19: no picture drawn by build_pptx, add_fill_grid_slide_no_captions or
\* make_maldi_ppt leaves the canvas: left >= 0, top >= 0, left + width <=
\* canvas width and top + height <= canvas height.
C19_PlacementsInsideCanvas ==
    fn \in {"build_pptx", "add_fill_grid_slides_no_captions_paginated", "make_maldi_ppt"} =>
        \A sk \in Pictures : InsideCanvas(Pic(sk))

\* two rectangles share a region of positive width and height
Overlap(p, q) ==
    /\ Min(p.left + p.width, q.left + q.width) > Max(p.left, q.left)
    /\ Min(p.top + p.height, q.top + q.height) > Max(p.top, q.top)

\* C20: in every layout function, the rectangles of two different pictures
\* of one slide never overlap.
C20_NoTwoPicturesOverlap ==
    \A s \in 1..Len(slides) : \A k1, k2 \in 1..Len(slides[s]) :
        k1 < k2 => ~Overlap(slides[s][k1], slides[s][k2])

\* w : h equals num : den within one unit of either side
RatioIs(w, h, num, den) == Abs(w * den - h * num) <= Max(num, den)

\* build_pptx: the slot left for one cell after margins and spacing, and
\* the cell, in EMU
build_slot_w ==
    With(build_pptx_grid(grid), LAMBDA G :
        Inches(fdiv(fsub(fsub(dec(grid.w), dec(50)), fmul(fl_int(grid.cols - 1), G.hspace_in)),
                    fl_int(grid.cols))))
build_slot_h ==
    With(build_pptx_grid(grid), LAMBDA G :
        Inches(fdiv(fsub(fsub(dec(grid.h), dec(50)), fmul(fl_int(grid.rows - 1), G.vspace_in)),
                    fl_int(grid.rows))))

\* the largest cell of ratio num : den in a slot of slot_w x slot_h: it has
\* the ratio, fits the slot, and touches it in width or in height
LargestCellOfRatio(w, h, slot_w, slot_h, num, den) ==
    /\ RatioIs(w, h, num, den)
    /\ w <= slot_w /\ h <= slot_h
    /\ w >= slot_w - 1 \/ h >= slot_h - 1

\* C21: with a target ratio and row/column counts, the cell is the largest
\* one of that ratio that fits the area left after margins and spacing
\* (1.8 : 1.5 in build_pptx, 6.5 : 5 in add_fill_grid_slide_no_captions);
\* when the height is the limit the width is reduced to keep the ratio.
C21_CellIsLargestOfTargetRatio ==
    /\ (fn = "build_pptx" /\ Len(slides) > 0 /\ build_slot_w > 0 /\ build_slot_h > 0) =>
           With(build_pptx_grid(grid), LAMBDA G :
               LargestCellOfRatio(Inches(G.fit_w), Inches(G.fit_h),
                                  build_slot_w, build_slot_h, 6, 5))
    /\ (fn = "add_fill_grid_slides_no_captions_paginated" /\ Len(slides) > 0) =>
           With(fill_grid(grid), LAMBDA G :
               (G.cell_w > 0 /\ G.cell_h > 0) =>
                   LargestCellOfRatio(G.cell_w, G.cell_h, G.cell_w,
                       (G.slide_h - 2 * G.margin - G.vspace * (grid.rows - 1)) \div grid.rows,
                       13, 10))

\* the picture has the proportions of the image it shows, each side within
\* one unit of the exactly scaled one
KeepsProportions(p) ==
    Abs(p.width * items[p.item].h - p.height * items[p.item].w)
        <= Max(items[p.item].w, items[p.item].h)

\* C22: in build_pptx and add_fill_grid_slide_no_captions every picture
\* has the width : height ratio of its own image, within one rounding
\* unit; the slot size never overrides it.
C22_PictureKeepsImageRatio ==
    fn \in {"build_pptx", "add_fill_grid_slides_no_captions_paginated"} =>
        \A sk \in Pictures :
            (Pic(sk).cell_w > 0 /\ Pic(sk).cell_h > 0) => KeepsProportions(Pic(sk))

\* the grid of the running function on its canvas, in EMU: the surplus on
\* each of the four sides of the grid (cells plus internal spacing) and the
\* margin the function was given
GridBox ==
    CASE fn = "build_pptx" ->
            With(build_pptx_grid(grid), LAMBDA G :
                [left |-> Inches(G.margin_h), top |-> Inches(G.margin_v),
                 right |-> Inches(fsub(dec(grid.w), fadd(G.margin_h, G.grid_w))),
                 bottom |-> Inches(fsub(dec(grid.h), fadd(G.margin_v, G.grid_h))),
                 margin |-> Inches(dec(25))])
      [] fn = "make_maldi_ppt" ->
            With(maldi_grid, LAMBDA G :
                [left |-> Inches(G.left), top |-> Inches(G.top),
                 right |-> Inches(fsub(G.page_w_in, fadd(G.left, G.grid_w))),
                 bottom |-> Inches(fsub(G.page_h_in, fadd(G.top, G.grid_h))),
                 margin |-> Inches(G.margin_in)])
      [] OTHER ->
            With(fill_grid(grid), LAMBDA G :
                [left |-> G.origin_left, top |-> G.origin_top,
                 right |-> G.slide_w - (G.origin_left + G.cell_w * grid.cols
                                            + G.hspace * (grid.cols - 1)),
                 bottom |-> G.slide_h - (G.origin_top + G.cell_h * grid.rows
                                             + G.vspace * (grid.rows - 1)),
                 margin |-> G.margin])

GridCentred(B) ==
    /\ Abs(B.left - B.right) <= 1
    /\ Abs(B.top - B.bottom) <= 1

\* C23: in build_pptx, add_fill_grid_slide_no_captions and make_maldi_ppt
\* the grid is centred on the canvas within one unit on both axes, and its
\* origin is never inside the margin: left >= margin and top >= margin.
C23_GridCentredOutsideMargin ==
    (fn \in {"build_pptx", "add_fill_grid_slides_no_captions_paginated", "make_maldi_ppt"}
        /\ Len(slides) > 0) =>
            /\ GridCentred(GridBox)
            /\ GridBox.left >= GridBox.margin
            /\ GridBox.top >= GridBox.margin

\* the bounding box of the cells occupied on slide s
Lowest(S) == CHOOSE x \in S : \A y \in S : x <= y
Highest(S) == CHOOSE x \in S : \A y \in S : x >= y
OccupiedBox(s) ==
    LET ps == {slides[s][k] : k \in 1..Len(slides[s])}
    IN  [left |-> Lowest({p.cell_left : p \in ps}),
         top |-> Lowest({p.cell_top : p \in ps}),
         right |-> Highest({p.cell_left + p.cell_w : p \in ps}),
         bottom |-> Highest({p.cell_top + p.cell_h : p \in ps})]

\* C24: on a slide of build_pptx or add_fill_grid_slide_no_captions that
\* holds fewer items than its capacity, the bounding box of the occupied
\* cells is centred on the canvas horizontally and vertically within one
\* unit.
C24_PartialSlideIsCentred ==
    (fn \in {"build_pptx", "add_fill_grid_slides_no_captions_paginated"} /\ lpc = "done") =>
        \A s \in 1..Len(slides) :
            (/\ Len(slides[s]) > 0 /\ Len(slides[s]) < per_slide
             /\ \A k \in 1..Len(slides[s]) : slides[s][k].cell_w > 0 /\ slides[s][k].cell_h > 0) =>
                /\ Abs(OccupiedBox(s).left - (canvas_w - OccupiedBox(s).right)) <= 1
                /\ Abs(OccupiedBox(s).top - (canvas_h - OccupiedBox(s).bottom)) <= 1

\* add_captioned_grid_slide: the text box added under picture p, at
\* (left, top + img_h) with the size cell_w x caption_h
caption_h == Inches(dec(18))
caption_box(p) ==
    [left |-> p.cell_left, top |-> p.cell_top + p.box_h,
     width |-> p.cell_w, height |-> caption_h]

CaptionInsideCell(p) ==
    /\ p.box_h = p.cell_h - caption_h
    /\ caption_box(p).left = p.cell_left /\ caption_box(p).width = p.cell_w
    /\ caption_box(p).top = p.cell_top + p.box_h
    /\ caption_box(p).top + caption_box(p).height = p.cell_top + p.cell_h

\* C25: in add_captioned_grid_slide the caption height is taken off the
\* cell height before the picture is sized, the caption box spans the cell
\* width and fills the bottom of the cell below the image area, and no
\* picture extends below the top edge of its caption.
C25_PictureAboveItsCaption ==
    fn = "add_captioned_grid_slide" =>
        \A sk \in Pictures :
            (Pic(sk).cell_w > 0 /\ Pic(sk).cell_h > caption_h) =>
                /\ CaptionInsideCell(Pic(sk))
                /\ Pic(sk).top + Pic(sk).height <= caption_box(Pic(sk)).top

-----------------------------------------------------------------------------
(* utils/sequence_utils.py get_sequence_window *)

MaxSeqLen == 3
MaxWindow == 3
Residues == {"M", "G", "K"}

\* the sequence of the docstring example, 'MGKKKSKRTCDE'
DocSequence == <<"M", "G", "K", "K", "K", "S", "K", "R", "T", "C", "D", "E">>

\* s[a:b] of Python for a >= 0: a negative b counts from the end
Slice(s, a, b) ==
    LET e == IF b < 0 THEN Max(0, b + Len(s)) ELSE Min(b, Len(s))
    IN  IF a >= e THEN <<>> ELSE SubSeq(s, a + 1, e)

\* '-' * k
Dashes(k) == [i \in 1..k |-> "-"]

\* (a variant that never pads the end of the window)
get_sequence_window_no_end_padding(seq, pos, size) ==
    LET start == Max(0, pos - size)
        end == Min(Len(seq), pos + size + 1)
        w0 == Slice(seq, start, end)
    IN  IF start = 0 /\ pos < size THEN Dashes(size - pos) \o w0 ELSE w0

get_sequence_window(seq, pos, size) ==
    LET start == Max(0, pos - size)
        end == Min(Len(seq), pos + size + 1)
        w0 == Slice(seq, start, end)
        w1 == IF start = 0 /\ pos < size THEN Dashes(size - pos) \o w0 ELSE w0
    IN  IF end = Len(seq) /\ pos + size >= Len(seq)
            THEN w1 \o Dashes(pos + size - Len(seq) + 1)
            ELSE w1

\* every short sequence with every centre from one before its start to one
\* past its end, and the call of the docstring
WindowInit ==
    /\ NormIdle /\ FileIdle /\ MainIdle /\ LayoutIdle /\ MergeIdle /\ TableIdle
    /\ window = <<>> /\ wpc = "call"
    /\ \/ /\ sequence \in UNION {[1..n -> Residues] : n \in 1..MaxSeqLen}
          /\ position \in (0 - 1)..Len(sequence)
          /\ window_size \in 0..MaxWindow
       \/ /\ sequence = DocSequence
          /\ position \in 0..(Len(DocSequence) - 1)
          /\ window_size \in 0..MaxWindow

GetSequenceWindow ==
    /\ wpc = "call"
    /\ window' = get_sequence_window(sequence, position, window_size)
    /\ wpc' = "done"
    /\ UNCHANGED <<sequence, position, window_size, normVars, fileVars, mainVars, layoutVars, mergeVars, tableVars>>

WindowNext == GetSequenceWindow
SpecWindow == WindowInit /\ [][WindowNext]_vars

\* the residue at offset i - 1 - window_size from the centre, '-' outside
\* the sequence
Expected(i) ==
    IF position - window_size + i >= 1 /\ position - window_size + i <= Len(sequence)
        THEN sequence[position - window_size + i]
        ELSE "-"

WindowAroundCentre ==
    (wpc = "done" /\ 0 <= position /\ position < Len(sequence)) =>
        /\ Len(window) = 2 * window_size + 1
        /\ \A i \in 1..(2 * window_size + 1) : window[i] = Expected(i)

DocCall == wpc = "done" /\ sequence = DocSequence /\ position = 5 /\ window_size = 3

-----------------------------------------------------------------------------
(* plot_hplc: the page frames, the page-3 renaming, the merge on Time and   *)
(* the plot of every merged column.  A series is known by the page it was   *)
(* read from and the header it had there; a merged column by its name and   *)
(* the series whose row-wise mean it holds.                                  *)

\* Column headers of the page CSVs, other than the time column.
ColumnNames == {<<"A">>, <<"B">>, <<"A">> \o P3DISTINCT}

\* The columns of an extra page after the renaming of lines 261-274; only
\* page 3 (idx == 3) is renamed.
renamed_columns(n, cols, p1_p2_cols) ==
    {[name |-> IF n = 3 /\ c \in p1_p2_cols THEN c \o P3DISTINCT ELSE c,
      from |-> c] : c \in cols}

\* Pages whose columns still have distinct names after the renaming.
DistinctAfterRename(given) ==
    \A c \in given[3].cols :
        (c \in given[1].cols \cup given[2].cols) => (c \o P3DISTINCT) \notin given[3].cols

\* f"_p{i}"
page_suffix(i) == <<"_", "p", <<"1", "2", "3", "4">>[i]>>

\* The number of digits at the end of s
RECURSIVE trailing_digits(_)
trailing_digits(s) ==
    IF s # <<>> /\ s[Len(s)] \in Digits
    THEN 1 + trailing_digits(SubSeq(s, 1, Len(s) - 1)) ELSE 0

\* re.sub(r"_p\d+$", "", c)
strip_page_suffix(c) ==
    LET t == trailing_digits(c)
    IN  IF t >= 1 /\ Len(c) >= t + 2 /\ SubSeq(c, Len(c) - t - 1, Len(c) - t) = <<"_", "p">>
        THEN SubSeq(c, 1, Len(c) - t - 2) ELSE c

\* groups.setdefault(base, []).append(c) and the mean over the members
grouped(cols) ==
    {[name |-> b,
      members |-> {[page |-> c.page, from |-> c.from] : c \in {d \in cols : d.base = b}}] :
        b \in {c.base : c \in cols}}

\* _merge_pages_multi
merge_pages_multi(fs) ==
    grouped(UNION {{[base |-> strip_page_suffix(f.name \o page_suffix(i)),
                     page |-> fs[i].page, from |-> f.from] : f \in fs[i].cols} :
                   i \in 1..Len(fs)})

\* _merge_pages: pd.merge puts "_p1" / "_p2" on the names both frames have.
merge_pages(page1, page2) ==
    LET both == {f.name : f \in page1.cols} \cap {f.name : f \in page2.cols}
        merged_name(f, sfx) == IF f.name \in both THEN f.name \o sfx ELSE f.name
        base(c) == IF endswith(c, page_suffix(1)) \/ endswith(c, page_suffix(2))
                   THEN SubSeq(c, 1, Len(c) - 3) ELSE c
    IN  grouped({[base |-> base(merged_name(f, page_suffix(1))),
                  page |-> page1.page, from |-> f.from] : f \in page1.cols}
                \cup
                {[base |-> base(merged_name(f, page_suffix(2))),
                  page |-> page2.page, from |-> f.from] : f \in page2.cols})

MergeInit ==
    /\ page_cols \in [1..4 -> [given : BOOLEAN, cols : SUBSET ColumnNames]]
    /\ page_cols[1].given /\ page_cols[2].given
    /\ \A n \in 3..4 : ~page_cols[n].given => page_cols[n].cols = {}
    /\ DistinctAfterRename(page_cols)
    /\ frames = <<>> /\ merged = {} /\ plots = {} /\ hpc = "start"
    /\ NormIdle /\ FileIdle /\ MainIdle /\ LayoutIdle /\ WindowIdle /\ TableIdle

\* plot_hplc, lines 243-280: pages 1 and 2, then the extra pages that exist.
ReadPages ==
    /\ hpc = "start"
    /\ frames' =
        LET p1_p2_cols == page_cols[1].cols \cup page_cols[2].cols
            frame(n) == [page |-> n,
                         cols |-> renamed_columns(n, page_cols[n].cols, p1_p2_cols)]
            extra(n) == IF page_cols[n].given THEN <<frame(n)>> ELSE <<>>
        IN  <<frame(1), frame(2)>> \o extra(3) \o extra(4)
    /\ hpc' = "read"
    /\ UNCHANGED <<page_cols, merged, plots, normVars, fileVars, mainVars, layoutVars,
                   windowVars, tableVars>>

\* plot_hplc, line 302
MergePages ==
    /\ hpc = "read"
    /\ merged' = IF Len(frames) > 2 THEN merge_pages_multi(frames)
                 ELSE merge_pages(frames[1], frames[2])
    /\ hpc' = "merged"
    /\ UNCHANGED <<page_cols, frames, plots, normVars, fileVars, mainVars, layoutVars,
                   windowVars, tableVars>>

\* plot_hplc, the loop over construct_cols: the title and the PNG of a column.
PlotConstructs ==
    /\ hpc = "merged"
    /\ plots' = {[col |-> m.name, shown |-> clean_construct_name(m.name),
                  png |-> png_name(m.name)] : m \in merged}
    /\ hpc' = "plotted"
    /\ UNCHANGED <<page_cols, frames, merged, normVars, fileVars, mainVars, layoutVars,
                   windowVars, tableVars>>

MergeNext == ReadPages \/ MergePages \/ PlotConstructs

SpecMerge == MergeInit /\ [][MergeNext]_vars

-----------------------------------------------------------------------------
(* C27 *)

\* The merged columns that hold the series read from header x of page n
ColumnsOf(n, x) == {m \in merged : [page |-> n, from |-> x] \in m.members}

\* The PNG and the title of merged column m
PlotOf(m) == CHOOSE p \in plots : p.col = m.name

\* The headers of page 3 that page 1 or page 2 has too
Colliding == IF page_cols[3].given
             THEN page_cols[3].cols \cap (page_cols[1].cols \cup page_cols[2].cols) ELSE {}

\* The page-3 series of a colliding header x is in the column x + "_p3distinct"
\* and in no column with a series of header x of page 1 or 2.
KeptApart(x) ==
    /\ \E m \in ColumnsOf(3, x) : m.name = x \o P3DISTINCT
    /\ \A m \in ColumnsOf(3, x) : \A n \in 1..2 : [page |-> n, from |-> x] \notin m.members

\* Its PNG is not the PNG of a column with the page-1/2 series of that header.
OwnPng(x) ==
    \A m \in ColumnsOf(3, x) : \A n \in 1..2 : \A o \in ColumnsOf(n, x) :
        PlotOf(m).png # PlotOf(o).png

\* Its title is the title of the header without the suffix.
ShownWithoutSuffix(x) ==
    \A m \in ColumnsOf(3, x) : PlotOf(m).shown = clean_construct_name(x)

\* Two frames of the list pages with a column of one name: one merged column
\* holds both series.
SameNameAveraged ==
    \A i, j \in 1..Len(frames) : \A f \in frames[i].cols : \A g \in frames[j].cols :
        f.name = g.name =>
            \E m \in merged : /\ [page |-> frames[i].page, from |-> f.from] \in m.members
                              /\ [page |-> frames[j].page, from |-> g.from] \in m.members

\* C27: a page-3 column named like a column of page 1 or 2 stays a separate
\* merged column (name + "_p3distinct") that is never averaged with the page-1/2
\* series, is written to a different PNG file and is shown with the suffix
\* stripped; columns of the same name in any other two pages are averaged into
\* one column.
C27_CollidingColumnKeptApart ==
    hpc = "plotted" =>
        /\ \A x \in Colliding : KeptApart(x) /\ OwnPng(x) /\ ShownWithoutSuffix(x)
        /\ SameNameAveraged

\* The same without the PNG names: separation, title and averaging.
C27_KeptApartAndAveraged ==
    hpc = "plotted" =>
        /\ \A x \in Colliding : KeptApart(x) /\ ShownWithoutSuffix(x)
        /\ SameNameAveraged

\* The PNG names differ for every colliding header that does not end with the suffix.
C27_OwnPngUnlessSuffixed ==
    hpc = "plotted" => \A x \in Colliding : ~endswith(x, P3DISTINCT) => OwnPng(x)

\* A colliding header was renamed, merged with a page-4 column and plotted.
C27_Witness ==
    /\ hpc = "plotted" /\ <<"A">> \in Colliding /\ Len(frames) = 4
    /\ \E m \in merged : m.name = <<"A">> \o P3DISTINCT /\ Cardinality(m.members) = 2

-----------------------------------------------------------------------------
(* MALDI/si_table3.py: build_si_table.  A dict is a function on its keys;   *)
(* None, and a cell that is not a number, are NoValue.                      *)

\* None and NaN; every value of the tables is positive.
NoValue == -1

\* Most rows of the theoretical table
MaxTheorRows == 2

\* Construct names as the three sources spell them
TableNames == {<<"A">>, <<"a">>, <<"B">>}

\* d[k] = v
Put(d, k, v) == [x \in DOMAIN d \cup {k} |-> IF x = k THEN v ELSE d[x]]

\* d.get(k)
Get(d, k) == IF k \in DOMAIN d THEN d[k] ELSE NoValue

\* si_table3._clean_display_name
clean_display_name(s) == paren_fix(strip(remove_chars(s, ZeroWidth)))

\* The loop over obs_main.items(): the last name of a key sets value and name.
RECURSIVE main_norm(_, _)
main_norm(its, d) ==
    IF its = <<>> THEN d
    ELSE LET k  == Head(its).name
             v  == Head(its).v
             nk == normalize_name_for_match(k)
         IN  main_norm(Tail(its),
                 IF v = NoValue THEN d
                 ELSE [obs |-> Put(d.obs, nk, v),
                       disp |-> Put(d.disp, nk, clean_display_name(k))])

\* The loop over obs_book1.items(): the first name of a key sets value and name.
RECURSIVE book1_norm(_, _)
book1_norm(its, d) ==
    IF its = <<>> THEN d
    ELSE LET k  == Head(its).name
             v  == Head(its).v
             nk == normalize_name_for_match(k)
         IN  book1_norm(Tail(its),
                 IF v = NoValue \/ nk \in DOMAIN d.obs THEN d
                 ELSE [obs |-> Put(d.obs, nk, v),
                       disp |-> Put(d.disp, nk, clean_display_name(k))])

\* The loop over the rows of the theoretical table: the last number of a key
\* is its value, the first name with a number its display name.
RECURSIVE theor_norm(_, _)
theor_norm(its, d) ==
    IF its = <<>> THEN d
    ELSE LET rw == strip(Head(its).name)
             v  == Head(its).v
             nk == normalize_name_for_match(rw)
         IN  theor_norm(Tail(its),
                 IF v = NoValue THEN d
                 ELSE [obs |-> Put(d.obs, nk, v),
                       disp |-> IF nk \in DOMAIN d.disp THEN d.disp
                                ELSE Put(d.disp, nk, clean_display_name(rw))])

NoDict == [obs |-> <<>>, disp |-> <<>>]

\* The display name of key nk is looked up in Book1 first.
display_of_book1_first(nk, dm, db, dt) ==
    IF nk \in DOMAIN db THEN db[nk]
    ELSE IF nk \in DOMAIN dm THEN dm[nk]
    ELSE IF nk \in DOMAIN dt THEN dt[nk] ELSE nk

\* lines 198-206
display_of(nk, dm, db, dt) ==
    IF nk \in DOMAIN dm THEN dm[nk]
    ELSE IF nk \in DOMAIN db THEN db[nk]
    ELSE IF nk \in DOMAIN dt THEN dt[nk] ELSE nk

\* lines 207-209
observed_of(nk, om, ob) == IF Get(om, nk) = NoValue THEN Get(ob, nk) ELSE Get(om, nk)

\* lines 210-214 (the column Error (%) is a function of delta and theo)
delta_of(obs, theo) == IF obs # NoValue /\ theo # NoValue THEN obs - theo ELSE NoValue

\* Sequences of distinct elements of S
Orderings(S) ==
    {q \in UNION {[1..k -> S] : k \in 0..Cardinality(S)} :
        \A i, j \in 1..Len(q) : i # j => q[i] # q[j]}

TableInit ==
    /\ \E S \in SUBSET TableNames : \E f \in [S -> {NoValue, 10}] :
           obs_main = [i \in 1..Cardinality(S) |->
                          [name |-> sorted(S)[i], v |-> f[sorted(S)[i]]]]
    /\ \E q \in Orderings(TableNames) :
           obs_book1 = [i \in 1..Len(q) |-> [name |-> q[i], v |-> 30 + i]]
    /\ theoretical \in UNION {[1..k -> [name : TableNames, v : {NoValue, 50}]] :
                                 k \in 0..MaxTheorRows}
    /\ obs_main_norm = <<>> /\ disp_main_norm = <<>>
    /\ obs_book1_norm = <<>> /\ disp_book1_norm = <<>>
    /\ theor_by_norm = <<>> /\ disp_theor_norm = <<>>
    /\ rows = <<>> /\ tpc = "start"
    /\ NormIdle /\ FileIdle /\ MainIdle /\ LayoutIdle /\ WindowIdle /\ MergeIdle

\* lines 139-147
NormalizeMain ==
    /\ tpc = "start"
    /\ obs_main_norm' = main_norm(obs_main, NoDict).obs
    /\ disp_main_norm' = main_norm(obs_main, NoDict).disp
    /\ tpc' = "main"
    /\ UNCHANGED <<obs_main, obs_book1, theoretical, obs_book1_norm, disp_book1_norm,
                   theor_by_norm, disp_theor_norm, rows,
                   normVars, fileVars, mainVars, layoutVars, windowVars, mergeVars>>

\* lines 149-158
NormalizeBook1 ==
    /\ tpc = "main"
    /\ obs_book1_norm' = book1_norm(obs_book1, NoDict).obs
    /\ disp_book1_norm' = book1_norm(obs_book1, NoDict).disp
    /\ tpc' = "book1"
    /\ UNCHANGED <<obs_main, obs_book1, theoretical, obs_main_norm, disp_main_norm,
                   theor_by_norm, disp_theor_norm, rows,
                   normVars, fileVars, mainVars, layoutVars, windowVars, mergeVars>>

\* lines 160-191
ReadTheoretical ==
    /\ tpc = "book1"
    /\ theor_by_norm' = theor_norm(theoretical, NoDict).obs
    /\ disp_theor_norm' = theor_norm(theoretical, NoDict).disp
    /\ tpc' = "theoretical"
    /\ UNCHANGED <<obs_main, obs_book1, theoretical, obs_main_norm, disp_main_norm,
                   obs_book1_norm, disp_book1_norm, rows,
                   normVars, fileVars, mainVars, layoutVars, windowVars, mergeVars>>

\* lines 193-216: one row per key of the union, in sorted order; the field
\* key records the nk of the row.
BuildRows ==
    /\ tpc = "theoretical"
    /\ rows' =
        LET all_norms == DOMAIN obs_main_norm \cup DOMAIN obs_book1_norm
                             \cup DOMAIN theor_by_norm
            order == sorted(all_norms)
        IN  [i \in 1..Len(order) |->
                [key |-> order[i],
                 display |-> display_of(order[i], disp_main_norm, disp_book1_norm,
                                        disp_theor_norm),
                 obs |-> observed_of(order[i], obs_main_norm, obs_book1_norm),
                 theo |-> Get(theor_by_norm, order[i]),
                 delta |-> delta_of(observed_of(order[i], obs_main_norm, obs_book1_norm),
                                    Get(theor_by_norm, order[i]))]]
    /\ tpc' = "rows"
    /\ UNCHANGED <<obs_main, obs_book1, theoretical, obs_main_norm, disp_main_norm,
                   obs_book1_norm, disp_book1_norm, theor_by_norm, disp_theor_norm,
                   normVars, fileVars, mainVars, layoutVars, windowVars, mergeVars>>

TableNext == NormalizeMain \/ NormalizeBook1 \/ ReadTheoretical \/ BuildRows

SpecTable == TableInit /\ [][TableNext]_vars

-----------------------------------------------------------------------------
(* C28 *)

\* The names of a source that have the key nk
NamedIn(src, nk) == {i \in 1..Len(src) : normalize_name_for_match(strip(src[i].name)) = nk}

\* Those of them that come with a value
ValuedIn(src, nk) == {i \in NamedIn(src, nk) : src[i].v \notin {NoValue}}

\* The keys of the names of a source
KeysNamed(src) == {normalize_name_for_match(strip(src[i].name)) : i \in 1..Len(src)}

\* The keys of the names of a source that come with a value
KeysValued(src) == {nk \in KeysNamed(src) : ValuedIn(src, nk) # {}}

\* One row per key of K, in the order of the keys
OneRowPerKey(K) ==
    /\ {rows[i].key : i \in 1..Len(rows)} = K
    /\ \A i, j \in 1..Len(rows) : i < j => str_less(rows[i].key, rows[j].key)

\* The display name of row r is that of one of the names I of source src
DisplayFrom(r, src, I) == \E i \in I : r.display = clean_display_name(strip(src[i].name))

\* C28 as stated: one row per distinct key of the names of the main spectra,
\* Book1 and the theoretical table, ordered by key; the display name is from
\* the main spectra if the key occurs there, else from Book1, else from the
\* theoretical table; the observed value is from the main spectra if present,
\* else from Book1.
C28_OneRowPerNamedKey ==
    tpc = "rows" =>
        /\ OneRowPerKey(KeysNamed(obs_main) \cup KeysNamed(obs_book1)
                            \cup KeysNamed(theoretical))
        /\ \A i \in 1..Len(rows) :
            LET r == rows[i]
            IN  /\ IF NamedIn(obs_main, r.key) # {}
                   THEN DisplayFrom(r, obs_main, NamedIn(obs_main, r.key))
                   ELSE IF NamedIn(obs_book1, r.key) # {}
                   THEN DisplayFrom(r, obs_book1, NamedIn(obs_book1, r.key))
                   ELSE DisplayFrom(r, theoretical, NamedIn(theoretical, r.key))
                /\ IF ValuedIn(obs_main, r.key) # {}
                   THEN \E k \in ValuedIn(obs_main, r.key) : r.obs = obs_main[k].v
                   ELSE IF ValuedIn(obs_book1, r.key) # {}
                   THEN \E k \in ValuedIn(obs_book1, r.key) : r.obs = obs_book1[k].v
                   ELSE r.obs = NoValue

\* C28 amended: one row per distinct key of the names that come with a value
\* (an observed peak in the main spectra or in Book1, a number in the
\* theoretical table), ordered by key; the display name is from the main
\* spectra if the key has a value there, else from Book1, else from the
\* theoretical table; the observed value is from the main spectra if present,
\* else from Book1.
C28_OneRowPerValuedKey ==
    tpc = "rows" =>
        /\ OneRowPerKey(KeysValued(obs_main) \cup KeysValued(obs_book1)
                            \cup KeysValued(theoretical))
        /\ \A i \in 1..Len(rows) :
            LET r == rows[i]
            IN  /\ IF ValuedIn(obs_main, r.key) # {}
                   THEN DisplayFrom(r, obs_main, ValuedIn(obs_main, r.key))
                   ELSE IF ValuedIn(obs_book1, r.key) # {}
                   THEN DisplayFrom(r, obs_book1, ValuedIn(obs_book1, r.key))
                   ELSE DisplayFrom(r, theoretical, ValuedIn(theoretical, r.key))
                /\ IF ValuedIn(obs_main, r.key) # {}
                   THEN \E k \in ValuedIn(obs_main, r.key) : r.obs = obs_main[k].v
                   ELSE IF ValuedIn(obs_book1, r.key) # {}
                   THEN \E k \in ValuedIn(obs_book1, r.key) : r.obs = obs_book1[k].v
                   ELSE r.obs = NoValue

\* Two rows; the key of one is spelled differently in the main spectra and in
\* Book1 and has a value in both and in the theoretical table.
C28_Witness ==
    /\ tpc = "rows" /\ Len(rows) = 2
    /\ \E i \in 1..Len(rows) :
        /\ ValuedIn(obs_main, rows[i].key) # {}
        /\ ValuedIn(obs_book1, rows[i].key) # {}
        /\ ValuedIn(theoretical, rows[i].key) # {}
        /\ rows[i].display \notin {clean_display_name(obs_book1[k].name) :
                                      k \in NamedIn(obs_book1, rows[i].key)}
        /\ rows[i].obs = 10

-----------------------------------------------------------------------------
(* C29 *)

\* The keys of the entries of ordered_imgs
EmittedKeys == {file_key(ordered_imgs[i]) : i \in 1..Len(ordered_imgs)}

\* C29: the reordering loses no key: after the page passes and the leftover
\* pass the keys of the emitted images are exactly the keys of the filtered
\* image list, the keys of img_map, and each key is emitted exactly once.
C29_ReorderingLosesNoKey ==
    pc = "done" =>
        /\ EmittedKeys = DOMAIN img_map
        /\ EmittedKeys = {file_key(imgs[i]) : i \in 1..Len(imgs)}
        /\ \A k \in DOMAIN img_map :
              Cardinality({i \in 1..Len(ordered_imgs) : file_key(ordered_imgs[i]) = k}) = 1
        /\ \A i \in 1..Len(ordered_imgs) : ordered_imgs[i] \in Range(imgs)

\* Pages and leftover pass both emitted, a key of two files among them, and the
\* order is not that of the folder.
C29_Witness ==
    /\ pc = "done"
    /\ PageEntries # {} /\ LeftoverEntries # {}
    /\ Len(imgs) > Cardinality(DOMAIN img_map)
    /\ ordered_imgs # SelectSeq(imgs, LAMBDA f : f \in Range(ordered_imgs))

-----------------------------------------------------------------------------
(* C30 *)

\* The places in imgs of the files with key k
FilesOf(k) == {i \in 1..Len(imgs) : file_key(imgs[i]) = k}

\* The keys that several files of imgs have
SharedKeys == {k \in DOMAIN img_map : Cardinality(FilesOf(k)) >= 2}

\* Of the files of key k exactly one is emitted: the last of the sorted list
\* when byPage, the first otherwise.
OneFileOf(k, byPage) ==
    /\ Cardinality({i \in 1..Len(ordered_imgs) : file_key(ordered_imgs[i]) = k}) = 1
    /\ \A i \in 1..Len(ordered_imgs) :
          file_key(ordered_imgs[i]) = k =>
              ordered_imgs[i] = imgs[IF byPage THEN SetMax(FilesOf(k)) ELSE SetMin(FilesOf(k))]

\* C30 as stated: of several files that share a key exactly one is emitted, the
\* last in sorted order when some page lists the key, the first in sorted order
\* when only the leftover pass reaches the key.
C30_LastFileIfListed ==
    pc = "done" =>
        \A k \in SharedKeys : OneFileOf(k, \E n \in 1..4 : k \in ListedKeys(n))

\* C30 amended: of several files that share a key exactly one is emitted, the
\* last in sorted order when some page pass looks the key up, the first in
\* sorted order when only the leftover pass reaches the key; page 3 does not
\* look up the plain key of a raw name whose disambiguated image it appended.
C30_LastFileIfLookedUp ==
    pc = "done" =>
        \A k \in SharedKeys : OneFileOf(k, \E n \in 1..4 : k \in TriedKeys(n))

\* A page pass emitted the last of two files of one key.
C30_Witness ==
    /\ pc = "done"
    /\ \E k \in SharedKeys : \E e \in PageEntries :
          /\ emitted_by[e].key = k
          /\ ordered_imgs[e] = imgs[SetMax(FilesOf(k))]
          /\ ordered_imgs[e] # imgs[SetMin(FilesOf(k))]

=============================================================================
